---- MODULE Spec2Model ----
(***************************************************************************)
(* Knowledge-base question answering over a vector index: the retriever    *)
(* (query expansion, hybrid re-ranking), the confidence score of the       *)
(* generator, and the API service around them.                             *)
(*                                                                         *)
(* Text is a sequence of one-character strings.  Real numbers are exact    *)
(* rationals <<n, d>> in lowest terms with d > 0.                          *)
(***************************************************************************)
EXTENDS Integers, Sequences, FiniteSets, TLC

(***************************************************************************)
(* Bounds of the model.                                                    *)
(***************************************************************************)
\* longest enumerated candidate list the index answers with
MaxHits == 2

\* largest of the small values of k
MaxSmallK == 2

(***************************************************************************)
(* Rational arithmetic.                                                    *)
(***************************************************************************)
Abs(x) == IF x < 0 THEN -x ELSE x

RECURSIVE Gcd(_, _)
Gcd(a, b) == IF b = 0 THEN a ELSE Gcd(b, a % b)

Rat(n, d) ==
    LET g == Gcd(Abs(n), Abs(d))
        s == IF d < 0 THEN -1 ELSE 1
    IN  <<(s * n) \div g, (s * d) \div g>>

Lcm(a, b) == (a \div Gcd(a, b)) * b

R0 == <<0, 1>>
R1 == <<1, 1>>

RAdd(x, y) ==
    LET l == Lcm(x[2], y[2])
    IN  Rat(x[1] * (l \div x[2]) + y[1] * (l \div y[2]), l)

RNeg(x) == <<-x[1], x[2]>>
RSub(x, y) == RAdd(x, RNeg(y))
RMul(x, y) ==
    LET g1 == Gcd(Abs(x[1]), y[2])
        g2 == Gcd(Abs(y[1]), x[2])
    IN  Rat((x[1] \div g1) * (y[1] \div g2), (x[2] \div g2) * (y[2] \div g1))
RDiv(x, y) == RMul(x, IF y[1] < 0 THEN <<-y[2], -y[1]>> ELSE <<y[2], y[1]>>)

RLt(x, y) ==
    LET l == Lcm(x[2], y[2])
    IN  x[1] * (l \div x[2]) < y[1] * (l \div y[2])
RLe(x, y) == ~RLt(y, x)

\* Python's min(a, b) and max(a, b): the first argument wins a tie
PyMin(a, b) == IF RLt(b, a) THEN b ELSE a
PyMax(a, b) == IF RLt(a, b) THEN b ELSE a

InUnit(x) == RLe(R0, x) /\ RLe(x, R1)

\* sum(s[lo..hi]); the arithmetic is exact, so the grouping of the additions
\* does not change the value, and halving keeps the evaluation shallow
RECURSIVE RSumRange(_, _, _)
RSumRange(s, lo, hi) ==
    IF lo > hi THEN R0
    ELSE IF lo = hi THEN s[lo]
    ELSE LET mid == (lo + hi) \div 2
         IN  RAdd(RSumRange(s, lo, mid), RSumRange(s, mid + 1, hi))

RSum(s) == RSumRange(s, 1, Len(s))

\* min(s[lo..hi]) of a non-empty range
RECURSIVE RMinRange(_, _, _)
RMinRange(s, lo, hi) ==
    IF lo = hi THEN s[lo]
    ELSE LET mid == (lo + hi) \div 2
         IN  PyMin(RMinRange(s, lo, mid), RMinRange(s, mid + 1, hi))

RMinOf(s) == RMinRange(s, 1, Len(s))

(***************************************************************************)
(* Text: character classes of the regular expressions, str.lower,          *)
(* str.strip, substring test.                                              *)
(***************************************************************************)
LowerLetters ==
    <<"a","b","c","d","e","f","g","h","i","j","k","l","m",
      "n","o","p","q","r","s","t","u","v","w","x","y","z">>
UpperLetters ==
    <<"A","B","C","D","E","F","G","H","I","J","K","L","M",
      "N","O","P","Q","R","S","T","U","V","W","X","Y","Z">>
Digits == {"0","1","2","3","4","5","6","7","8","9"}
Whitespace == {" ", "\t", "\n", "\r"}

Range(s) == {s[i] : i \in DOMAIN s}

LetterSet == Range(LowerLetters) \cup Range(UpperLetters)

\* \w of the regular expressions
WordChars == LetterSet \cup Digits \cup {"_"}

\* the class [a-zA-Z0-9\-\'] of the keyword pattern
KeywordChars == LetterSet \cup Digits \cup {"-", "'"}

LowerOf ==
    [c \in Range(UpperLetters) |->
        LowerLetters[CHOOSE i \in DOMAIN UpperLetters : UpperLetters[i] = c]]

LowerChar(c) == IF c \in DOMAIN LowerOf THEN LowerOf[c] ELSE c

\* str.lower()
Lower(s) == [i \in DOMAIN s |-> LowerChar(s[i])]

IsWordChar(c) == c \in WordChars

IsKeywordChar(c) == c \in KeywordChars

\* a variant that forgets strip(): only the empty string counts as blank
IsBlank_EmptyOnly(s) == s = <<>>

\* `not query or not query.strip()`
IsBlank(s) == \A i \in DOMAIN s : s[i] \in Whitespace

\* \b at the gap before position i (1 .. Len(s) + 1)
WordBoundary(s, i) ==
    LET before == i > 1 /\ IsWordChar(s[i - 1])
        after  == i <= Len(s) /\ IsWordChar(s[i])
    IN  before # after

\* `needle in hay`
Contains(hay, needle) ==
    \E i \in 1..(Len(hay) - Len(needle) + 1) :
        SubSeq(hay, i, i + Len(needle) - 1) = needle

\* last position of the run of characters of class cls that starts at i
RECURSIVE RunEnd(_, _, _)
RunEnd(s, i, cls) ==
    IF i < Len(s) /\ s[i + 1] \in cls THEN RunEnd(s, i + 1, cls) ELSE i

\* greatest j in i..e that a word boundary follows; 0 when none
RECURSIVE LastBoundary(_, _, _)
LastBoundary(s, i, e) ==
    IF e < i THEN 0
    ELSE IF WordBoundary(s, e + 1) THEN e
         ELSE LastBoundary(s, i, e - 1)

\* end of the match of [a-zA-Z0-9\-\']+\b that starts at i: the greatest j such
\* that s[i..j] is in the class and a word boundary follows j; 0 when none
KeywordMatchEnd(s, i) ==
    IF IsKeywordChar(s[i])
    THEN LastBoundary(s, i, RunEnd(s, i, KeywordChars))
    ELSE 0

\* re.findall(r'\b[a-zA-Z0-9\-\']+\b', s), scanning from position i
RECURSIVE FindKeywordTokens(_, _)
FindKeywordTokens(s, i) ==
    IF i > Len(s) THEN <<>>
    ELSE LET j == IF WordBoundary(s, i) THEN KeywordMatchEnd(s, i) ELSE 0
         IN  IF j # 0
             THEN <<SubSeq(s, i, j)>> \o FindKeywordTokens(s, j + 1)
             ELSE FindKeywordTokens(s, i + 1)

\* re.findall(r'\b\w+\b', s), scanning from position i: the maximal runs of
\* word characters
RECURSIVE FindWords(_, _)
FindWords(s, i) ==
    IF i > Len(s) THEN <<>>
    ELSE IF IsWordChar(s[i])
         THEN <<SubSeq(s, i, RunEnd(s, i, WordChars))>>
                  \o FindWords(s, RunEnd(s, i, WordChars) + 1)
         ELSE FindWords(s, i + 1)

\* set(re.findall(r'\b\w+\b', s))
WordSet(s) == Range(FindWords(s, 1))

stop_words == {
    <<"t","h","e">>, <<"a">>, <<"a","n">>, <<"a","n","d">>, <<"o","r">>,
    <<"b","u","t">>, <<"i","n">>, <<"o","n">>, <<"a","t">>, <<"t","o">>,
    <<"f","o","r">>, <<"o","f">>, <<"w","i","t","h">>, <<"b","y">>,
    <<"i","s">>, <<"a","r","e">>, <<"w","a","s">>, <<"w","e","r","e">>,
    <<"b","e">>, <<"b","e","e","n">>, <<"b","e","i","n","g">>,
    <<"h","a","v","e">>, <<"h","a","s">>, <<"h","a","d">>, <<"d","o">>,
    <<"d","o","e","s">>, <<"d","i","d">>, <<"w","i","l","l">>,
    <<"w","o","u","l","d">>, <<"s","h","o","u","l","d">>,
    <<"c","o","u","l","d">>, <<"m","a","y">>, <<"m","i","g","h","t">>,
    <<"m","u","s","t">>, <<"c","a","n">>, <<"t","h","i","s">>,
    <<"t","h","a","t">>, <<"t","h","e","s","e">>, <<"t","h","o","s","e">>,
    <<"w","h","a","t">>, <<"w","h","i","c","h">>, <<"w","h","o">>,
    <<"w","h","o","m">>, <<"w","h","o","s","e">>, <<"w","h","e","r","e">>,
    <<"w","h","e","n">>, <<"w","h","y">>, <<"h","o","w">> }

\* order-preserving removal of duplicates
RECURSIVE Unique(_, _)
Unique(s, seen) ==
    IF s = <<>> THEN <<>>
    ELSE IF Head(s) \in seen THEN Unique(Tail(s), seen)
         ELSE <<Head(s)>> \o Unique(Tail(s), seen \cup {Head(s)})

\* a variant that forgets the stop-word filter
SelectSeqWords_StopWordsKept(s) ==
    SelectSeq(s, LAMBDA w : Len(w) > 2)

\* keywords = [w for w in words if w not in stop_words and len(w) > 2]
SelectSeqWords(s) ==
    SelectSeq(s, LAMBDA w : w \notin stop_words /\ Len(w) > 2)

\* Retriever._extract_keywords
_extract_keywords(query) ==
    Unique(SelectSeqWords(FindKeywordTokens(Lower(query), 1)), {})

RECURSIVE JoinSpace(_)
JoinSpace(ws) ==
    IF ws = <<>> THEN <<>>
    ELSE IF Len(ws) = 1 THEN ws[1]
         ELSE ws[1] \o <<" ">> \o JoinSpace(Tail(ws))

\* Retriever._expand_query
_expand_query(query) ==
    LET keywords == _extract_keywords(query)
    IN  IF keywords # <<>> THEN query \o <<" ">> \o JoinSpace(keywords)
        ELSE query

(***************************************************************************)
(* Documents and the vector index.                                         *)
(*                                                                         *)
(* A document (chunk) is a record of its page_content and metadata.  A hit *)
(* is a document with the raw distance the index reports for it.  The      *)
(* index answers a search for a query string with the nearest k of the     *)
(* candidates it holds for that string, nearest first, or raises.          *)
(***************************************************************************)
\* metadata as the ingestion sets it: source, file_path (its components) and
\* chunk_index
Doc(content, source, idx) ==
    [page_content |-> content,
     metadata |-> [source |-> source, file_path |-> <<"uploads", source>>,
                   chunk_index |-> idx]]

Hit(doc, dist) == [doc |-> doc, dist |-> dist]

Take(s, n) == SubSeq(s, 1, IF n < Len(s) THEN n ELSE Len(s))

Min2(a, b) == IF a < b THEN a ELSE b

\* FAISS.similarity_search_with_score(query, k), the n-th index call of a
\* retrieval: vs.failing holds the ordinals of the calls that raise
similarity_search_with_score(vs, query, k, n) ==
    IF n \in vs.failing
    THEN [raised |-> TRUE, hits |-> <<>>]
    ELSE [raised |-> FALSE, hits |-> Take(vs.cands[query], k)]

(***************************************************************************)
(* Retriever (src/rag/retriever.py and src/backend/rag/retriever.py).      *)
(***************************************************************************)
\* config.TOP_K_CHUNKS
TOP_K_CHUNKS == 5

\* settings.TOP_K_CHUNKS
settings_TOP_K_CHUNKS == 5

\* retrieve_k = min(k * 3, 20)
CandidateFactor == 3
CandidateCap == 20

\* the value standing for an omitted k argument (k = None)
DefaultK == 0

\* Retriever._calculate_keyword_match_score
_calculate_keyword_match_score(document, keywords) ==
    IF keywords = <<>> THEN R0
    ELSE LET content_lower == Lower(document.page_content)
             matches == Cardinality({i \in DOMAIN keywords :
                            Contains(content_lower, Lower(keywords[i]))})
         IN  Rat(matches, Len(keywords))

\* similarity a raw distance is normalised to, in the retriever
similarity_score(distance_score) ==
    LET normalized_distance ==
            IF RLt(R0, distance_score)
            THEN PyMin(RDiv(distance_score, <<2, 1>>), R1)
            ELSE R0
    IN  RSub(R1, normalized_distance)

\* combined_score = 0.7 * similarity_score + 0.3 * keyword_score
\* a variant that drops the keyword term of the combined score
combined_score_SimilarityOnly(document, distance_score, keywords) ==
    similarity_score(distance_score)

combined_score(document, distance_score, keywords) ==
    RAdd(RMul(<<7, 10>>, similarity_score(distance_score)),
         RMul(<<3, 10>>, _calculate_keyword_match_score(document, keywords)))

\* one tuple of enhanced_results
Enhance(hit, keywords) ==
    [doc |-> hit.doc, dist |-> hit.dist,
     combined |-> combined_score(hit.doc, hit.dist, keywords),
     keyword_score |-> _calculate_keyword_match_score(hit.doc, keywords)]

\* a variant whose sort puts a later candidate before an earlier one of the
\* same combined score
RECURSIVE InsertDesc_TiesReversed(_, _)
InsertDesc_TiesReversed(x, s) ==
    IF s = <<>> THEN <<x>>
    ELSE IF RLe(x.combined, Head(s).combined)
         THEN <<Head(s)>> \o InsertDesc_TiesReversed(x, Tail(s))
         ELSE <<x>> \o s

\* list.sort(key=combined, reverse=True): descending and stable
RECURSIVE InsertDesc(_, _)
InsertDesc(x, s) ==
    IF s = <<>> THEN <<x>>
    ELSE IF RLt(x.combined, Head(s).combined)
         THEN <<Head(s)>> \o InsertDesc(x, Tail(s))
         ELSE <<x>> \o s

RECURSIVE SortByCombined(_)
SortByCombined(s) ==
    IF s = <<>> THEN <<>>
    ELSE InsertDesc(Head(s), SortByCombined(Tail(s)))

\* a variant that returns the combined score in place of the raw distance
Rerank_CombinedAsDistance(docs_with_scores, keywords, k) ==
    LET enhanced_results ==
            SortByCombined([i \in DOMAIN docs_with_scores |->
                               Enhance(docs_with_scores[i], keywords)])
        top == Take(enhanced_results, k)
    IN  [i \in DOMAIN top |-> Hit(top[i].doc, top[i].combined)]

\* a variant that forgets the cut enhanced_results[:k]
Rerank_NoCut(docs_with_scores, keywords, k) ==
    LET enhanced_results ==
            SortByCombined([i \in DOMAIN docs_with_scores |->
                               Enhance(docs_with_scores[i], keywords)])
    IN  [i \in DOMAIN enhanced_results |->
            Hit(enhanced_results[i].doc, enhanced_results[i].dist)]

\* enhanced_results of the candidates, sorted, cut to k, as (doc, distance)
Rerank(docs_with_scores, keywords, k) ==
    LET enhanced_results ==
            SortByCombined([i \in DOMAIN docs_with_scores |->
                               Enhance(docs_with_scores[i], keywords)])
        top == Take(enhanced_results, k)
    IN  [i \in DOMAIN top |-> Hit(top[i].doc, top[i].dist)]

Call(query, k) == [query |-> query, k |-> k]

\* a variant whose except branch gives up without the plain search
FallbackRetrieval_NoRetry(vs, query, k, n, calls) ==
    [result |-> <<>>, calls |-> calls, raised |-> FALSE, path |-> "failed"]

\* the except branch: one plain search with the raw query and k, the n-th call
FallbackRetrieval(vs, query, k, n, calls) ==
    LET r == similarity_search_with_score(vs, query, k, n)
    IN  [result |-> r.hits,
         calls  |-> Append(calls, Call(query, k)),
         raised |-> FALSE,
         path   |-> IF r.raised THEN "failed" ELSE "fallback"]

\* a variant without the cap on the candidate count
RetrieveK_NoCap(k) == k * CandidateFactor

\* retrieve_k = min(k * 3, 20)
RetrieveK(k) == Min2(k * CandidateFactor, CandidateCap)

BlankRetrieval ==
    [result |-> <<>>, calls |-> <<>>, raised |-> FALSE, path |-> "blank"]

\* Retriever.retrieve_with_scores of src/rag/retriever.py
retrieve_with_scores(vs, query, kArg) ==
    LET k              == IF kArg = DefaultK THEN TOP_K_CHUNKS ELSE kArg
        keywords       == _extract_keywords(query)
        retrieve_k     == RetrieveK(k)
        expanded_query == _expand_query(query)
        first  == similarity_search_with_score(vs, expanded_query, retrieve_k, 1)
        second == similarity_search_with_score(vs, query, retrieve_k, 2)
        calls1 == <<Call(expanded_query, retrieve_k)>>
        calls2 == Append(calls1, Call(query, retrieve_k))
    IN  IF IsBlank(query) THEN BlankRetrieval
        ELSE IF first.raised THEN FallbackRetrieval(vs, query, k, 2, calls1)
        ELSE IF first.hits # <<>>
        THEN [result |-> Rerank(first.hits, keywords, k), calls |-> calls1,
              raised |-> FALSE, path |-> "enhanced"]
        ELSE IF second.raised THEN FallbackRetrieval(vs, query, k, 3, calls2)
        ELSE IF second.hits # <<>>
        THEN [result |-> Rerank(second.hits, keywords, k), calls |-> calls2,
              raised |-> FALSE, path |-> "enhanced"]
        ELSE [result |-> <<>>, calls |-> calls2,
              raised |-> FALSE, path |-> "empty"]

\* a variant of the service's retriever that returns the plain search
backend_retrieve_with_scores_PlainSearch(vs, query, kArg) ==
    LET k == IF kArg = DefaultK THEN settings_TOP_K_CHUNKS ELSE kArg
    IN  IF IsBlank(query) THEN BlankRetrieval
        ELSE FallbackRetrieval(vs, query, k, 1, <<>>)

\* Retriever.retrieve_with_scores of src/backend/rag/retriever.py
backend_retrieve_with_scores(vs, query, kArg) ==
    LET k              == IF kArg = DefaultK THEN settings_TOP_K_CHUNKS ELSE kArg
        keywords       == _extract_keywords(query)
        retrieve_k     == RetrieveK(k)
        expanded_query == _expand_query(query)
        first  == similarity_search_with_score(vs, expanded_query, retrieve_k, 1)
        second == similarity_search_with_score(vs, query, retrieve_k, 2)
        calls1 == <<Call(expanded_query, retrieve_k)>>
        calls2 == Append(calls1, Call(query, retrieve_k))
    IN  IF IsBlank(query) THEN BlankRetrieval
        ELSE IF first.raised THEN FallbackRetrieval(vs, query, k, 2, calls1)
        ELSE IF first.hits # <<>>
        THEN [result |-> Rerank(first.hits, keywords, k), calls |-> calls1,
              raised |-> FALSE, path |-> "enhanced"]
        ELSE IF second.raised THEN FallbackRetrieval(vs, query, k, 3, calls2)
        ELSE IF second.hits # <<>>
        THEN [result |-> Rerank(second.hits, keywords, k), calls |-> calls2,
              raised |-> FALSE, path |-> "enhanced"]
        ELSE [result |-> <<>>, calls |-> calls2,
              raised |-> FALSE, path |-> "empty"]

\* Retriever.retrieve of src/rag/retriever.py
retrieve(vs, query, k) ==
    IF IsBlank(query) THEN BlankRetrieval
    ELSE LET kk == IF k = DefaultK THEN TOP_K_CHUNKS ELSE k
             r  == similarity_search_with_score(vs, query, kk, 1)
         IN  [result |-> [i \in DOMAIN r.hits |-> r.hits[i].doc],
              calls  |-> <<Call(query, kk)>>,
              raised |-> FALSE,
              path   |-> IF r.raised THEN "failed" ELSE "plain"]

(***************************************************************************)
(* Retriever.get_source_metadata.                                          *)
(***************************************************************************)
\* content_preview keeps the first 300 characters
PreviewLen == 300

content_preview(content) ==
    IF Len(content) > PreviewLen
    THEN SubSeq(content, 1, PreviewLen) \o <<".", ".", ".">>
    ELSE content

\* Path(file_path).name
PathName(file_path) == file_path[Len(file_path)]

get_source_metadata(documents) ==
    [i \in DOMAIN documents |->
        [source          |-> PathName(documents[i].metadata.file_path),
         chunk_index     |-> documents[i].metadata.chunk_index,
         file_path       |-> documents[i].metadata.file_path,
         content_preview |-> content_preview(documents[i].page_content)]]

(***************************************************************************)
(* Retriever.format_context.                                               *)
(***************************************************************************)
\* "\n---\n\n".join(context_parts)
RECURSIVE JoinParts(_)
JoinParts(context_parts) ==
    IF context_parts = <<>> THEN <<>>
    ELSE IF Len(context_parts) = 1 THEN Head(context_parts)
    ELSE Head(context_parts) \o <<"\n", "-", "-", "-", "\n", "\n">>
         \o JoinParts(Tail(context_parts))

\* the metadata of a stored chunk always holds source and chunk_index, so
\* the defaults of metadata.get are not taken
format_context(documents) ==
    JoinParts([i \in DOMAIN documents |->
        <<"[Source: ", documents[i].metadata.source, ", Chunk ",
          ToString(documents[i].metadata.chunk_index), "]", "\n">>
        \o documents[i].page_content \o <<"\n">>])

(***************************************************************************)
(* Generator: the confidence score.                                        *)
(*                                                                         *)
(* x ** 0.9 is irrational for most rational x, so a number produced by the *)
(* power step is held by its base: Pow09(x) stands for the real x^(9/10),  *)
(* x >= 0.  The map is strictly increasing on x >= 0 and fixes 0 and 1, so *)
(* order and the comparisons with 0.0 and 1.0 are decided exactly on the   *)
(* bases.                                                                  *)
(***************************************************************************)
Pow09(x) == [pow09of |-> x]

P09Zero == Pow09(R0)
P09One  == Pow09(R1)
P09Lt(a, b) == RLt(a.pow09of, b.pow09of)
P09Le(a, b) == RLe(a.pow09of, b.pow09of)
P09InUnit(a) == P09Le(P09Zero, a) /\ P09Le(a, P09One)

\* a variant that returns the powered score unclamped
ClampUnit_None(p) == p

\* confidence_score = max(0.0, min(1.0, confidence_score))
ClampUnit(p) ==
    LET m == IF P09Lt(p, P09One) THEN p ELSE P09One
    IN  IF P09Lt(P09Zero, m) THEN m ELSE P09Zero

Scores(hits) == [i \in DOMAIN hits |-> hits[i].dist]

Square(x) == RMul(x, x)

\* a variant that divides by n - 1, the sample variance
Variance_Sample(scores) ==
    LET n   == <<Len(scores), 1>>
        avg == RDiv(RSum(scores), n)
    IN  RDiv(RSum([i \in DOMAIN scores |-> Square(RSub(scores[i], avg))]),
             <<Len(scores) - 1, 1>>)

\* sum((s - avg_distance) ** 2 for s in similarity_scores) / len(similarity_scores)
Variance(scores) ==
    LET n   == <<Len(scores), 1>>
        avg == RDiv(RSum(scores), n)
    IN  RDiv(RSum([i \in DOMAIN scores |-> Square(RSub(scores[i], avg))]), n)

\* consistency: 1.0 for one score, else 1.0 / (1.0 + variance)
Consistency(scores) ==
    IF Len(scores) > 1 THEN RDiv(R1, RAdd(R1, Variance(scores))) ELSE R1

\* a variant that divides the matches by the chunk's words, not the query's
KeywordMatches_ByContentWords(question, docs) ==
    LET query_words == WordSet(Lower(question))
        share(d) ==
            LET content_words == WordSet(Lower(d.page_content))
                matches == Cardinality(query_words \cap content_words)
            IN  IF matches > 0 THEN Rat(matches, Cardinality(content_words))
                ELSE R0
    IN  RSum([i \in DOMAIN docs |-> share(docs[i])])

\* the loop over retrieved_docs that accumulates keyword_matches
KeywordMatches(question, docs) ==
    LET query_words == WordSet(Lower(question))
        share(d) ==
            LET content_words == WordSet(Lower(d.page_content))
                matches == Cardinality(query_words \cap content_words)
            IN  IF matches > 0 THEN Rat(matches, Cardinality(query_words))
                ELSE R0
    IN  RSum([i \in DOMAIN docs |-> share(docs[i])])

\* keyword_boost = min(1.0, keyword_matches / len(retrieved_docs))
KeywordBoost(question, docs) ==
    IF docs = <<>> THEN R0
    ELSE PyMin(R1, RDiv(KeywordMatches(question, docs), <<Len(docs), 1>>))

\* a variant that does not halve the distance
DistanceSimilarity_NotHalved(distance) ==
    PyMax(R0, RSub(R1, distance))

\* a variant without the floor at 0.0
DistanceSimilarity_NoFloor(distance) ==
    RSub(R1, RDiv(distance, <<2, 1>>))

\* max(0.0, 1.0 - (distance / 2.0))
DistanceSimilarity(distance) ==
    PyMax(R0, RSub(R1, RDiv(distance, <<2, 1>>)))

\* a variant that subtracts the best-similarity term
WeightedSum_BestSubtracted(best_similarity, avg_similarity, consistency, keyword_boost) ==
    RAdd(RSub(RMul(<<3, 10>>, avg_similarity), RMul(<<1, 2>>, best_similarity)),
         RAdd(RMul(<<1, 10>>, consistency), RMul(<<1, 10>>, keyword_boost)))

\* 0.5 * best + 0.3 * avg + 0.1 * consistency + 0.1 * keyword_boost
WeightedSum(best_similarity, avg_similarity, consistency, keyword_boost) ==
    RAdd(RAdd(RMul(<<1, 2>>, best_similarity), RMul(<<3, 10>>, avg_similarity)),
         RAdd(RMul(<<1, 10>>, consistency), RMul(<<1, 10>>, keyword_boost)))

\* the weighting, the power step and the clamp; a negative base of ** 0.9
\* makes the clamp raise
ConfidenceFields(best_similarity, avg_similarity, consistency, keyword_boost) ==
    LET weighted == WeightedSum(best_similarity, avg_similarity,
                                consistency, keyword_boost)
    IN  [raised          |-> RLt(weighted, R0),
         best_similarity |-> best_similarity,
         avg_similarity  |-> avg_similarity,
         consistency     |-> consistency,
         keyword_match   |-> keyword_boost,
         final_score     |-> ClampUnit(Pow09(weighted))]

\* avg_distance = sum(similarity_scores) / len(similarity_scores)
AvgDistance(scores) == RDiv(RSum(scores), <<Len(scores), 1>>)

DocsOf(hits) == [i \in DOMAIN hits |-> hits[i].doc]

\* the confidence block of src/backend/rag/generator.py, for a non-empty
\* retrieval
confidence_breakdown(question, hits) ==
    ConfidenceFields(DistanceSimilarity(RMinOf(Scores(hits))),
                     DistanceSimilarity(AvgDistance(Scores(hits))),
                     Consistency(Scores(hits)),
                     KeywordBoost(question, DocsOf(hits)))

\* the weighting, the power step and the clamp of src/rag/generator.py
AgentConfidence(best_similarity, avg_similarity, consistency, keyword_boost) ==
    LET weighted == WeightedSum(best_similarity, avg_similarity,
                                consistency, keyword_boost)
    IN  [raised |-> RLt(weighted, R0),
         score  |-> ClampUnit(Pow09(weighted))]

\* the confidence block of src/rag/generator.py
agent_confidence_score(question, hits) ==
    AgentConfidence(DistanceSimilarity(RMinOf(Scores(hits))),
                    DistanceSimilarity(AvgDistance(Scores(hits))),
                    Consistency(Scores(hits)),
                    KeywordBoost(question, DocsOf(hits)))

(***************************************************************************)
(* Generator._extract_answer.                                              *)
(***************************************************************************)
ANSWER_MARK  == <<"A","N","S","W","E","R",":">>
SOURCES_MARK == <<"S","O","U","R","C","E","S",":">>

\* str.find: first position of pat in s, 0 when absent
Find(s, pat) ==
    IF Contains(s, pat)
    THEN CHOOSE i \in 1..(Len(s) - Len(pat) + 1) :
            /\ SubSeq(s, i, i + Len(pat) - 1) = pat
            /\ \A j \in 1..(i - 1) : SubSeq(s, j, j + Len(pat) - 1) # pat
    ELSE 0

\* s.split(pat)[0]
BeforeFirst(s, pat) ==
    IF Find(s, pat) = 0 THEN s ELSE SubSeq(s, 1, Find(s, pat) - 1)

\* s.split(pat)[1], for s that contains pat
SecondPart(s, pat) ==
    BeforeFirst(SubSeq(s, Find(s, pat) + Len(pat), Len(s)), pat)

RECURSIVE LStrip(_)
LStrip(s) ==
    IF s # <<>> /\ Head(s) \in Whitespace THEN LStrip(Tail(s)) ELSE s

RECURSIVE RStrip(_)
RStrip(s) ==
    IF s # <<>> /\ s[Len(s)] \in Whitespace
    THEN RStrip(SubSeq(s, 1, Len(s) - 1)) ELSE s

\* str.strip()
Strip(s) == LStrip(RStrip(s))

_extract_answer(response_text) ==
    IF Contains(response_text, ANSWER_MARK)
    THEN Strip(BeforeFirst(SecondPart(response_text, ANSWER_MARK), SOURCES_MARK))
    ELSE IF Contains(response_text, SOURCES_MARK)
         THEN Strip(BeforeFirst(response_text, SOURCES_MARK))
         ELSE Strip(response_text)

(***************************************************************************)
(* Generator.generate_answer.                                              *)
(*                                                                         *)
(* The text-generation call either raises (llm.raised, with the message    *)
(* llm.error) or returns llm.text.  A result is the dictionary returned,   *)
(* a record with exactly the keys the code sets.  An answer is a sequence  *)
(* of strings: a fixed message is one string, a parsed reply its           *)
(* characters.                                                             *)
(***************************************************************************)
MSG_VALID_QUESTION == <<"Please provide a valid question.">>
MSG_NOT_FOUND ==
    <<"I couldn't find any relevant information in the knowledge base. Please make sure documents have been uploaded and processed.">>
ErrorAnswer(e) == <<"An error occurred while generating the answer: ", e>>

\* similarity_score = float(1.0 - (similarity_scores[i] / 2.0))
SourceSimilarity(distance) == RSub(R1, RDiv(distance, <<2, 1>>))

\* the dict of an answered question (src/backend/rag/generator.py)
backend_answered(question, llm, hits, cb, sources) ==
    [answer  |-> _extract_answer(llm.text),
     sources |->
        [i \in DOMAIN sources |->
            [source           |-> sources[i].source,
             chunk_index      |-> sources[i].chunk_index,
             file_path        |-> sources[i].file_path,
             content_preview  |-> sources[i].content_preview,
             similarity_score |-> SourceSimilarity(hits[i].dist)]],
     confidence_score |-> cb.final_score,
     confidence_breakdown |->
        [best_similarity |-> cb.best_similarity,
         avg_similarity  |-> cb.avg_similarity,
         consistency     |-> cb.consistency,
         keyword_match   |-> cb.keyword_match,
         final_score     |-> cb.final_score],
     similarity_scores |->
        [i \in DOMAIN hits |-> SourceSimilarity(hits[i].dist)],
     query |-> question,
     timestamp |-> "utcnow",
     explain_mode |-> FALSE]

\* the dict of the except branch (src/backend/rag/generator.py)
backend_error(e) ==
    [answer |-> ErrorAnswer(e), sources |-> <<>>,
     confidence_score |-> P09Zero, similarity_scores |-> <<>>]

\* generate_answer from the confidence block on, for a non-empty retrieval
backend_answer_from(question, llm, hits, cb) ==
    IF cb.raised THEN backend_error("confidence error")
    ELSE IF llm.raised THEN backend_error(llm.error)
    ELSE backend_answered(question, llm, hits, cb,
                          get_source_metadata(DocsOf(hits)))

\* a variant without the early return for an empty retrieval: the text
\* generation is asked with an empty context
backend_after_retrieval_NoEmptyCheck(question, llm, retrieval) ==
    [calls  |-> retrieval.calls,
     result |->
        IF retrieval.raised THEN backend_error("retrieval error")
        ELSE IF retrieval.result = <<>>
        THEN IF llm.raised THEN backend_error(llm.error)
             ELSE [answer |-> _extract_answer(llm.text), sources |-> <<>>,
                   confidence_score |-> P09Zero,
                   confidence_breakdown |-> "None",
                   similarity_scores |-> <<>>, query |-> question,
                   timestamp |-> "utcnow", explain_mode |-> FALSE]
        ELSE backend_answer_from(question, llm, retrieval.result,
                 confidence_breakdown(question, retrieval.result))]

\* generate_answer once the retriever has answered
backend_after_retrieval(question, llm, retrieval) ==
    [calls  |-> retrieval.calls,
     result |->
        IF retrieval.raised THEN backend_error("retrieval error")
        ELSE IF retrieval.result = <<>>
        THEN [answer |-> MSG_NOT_FOUND, sources |-> <<>>,
              confidence_score |-> P09Zero, similarity_scores |-> <<>>]
        ELSE backend_answer_from(question, llm, retrieval.result,
                 confidence_breakdown(question, retrieval.result))]

\* Generator.generate_answer of src/backend/rag/generator.py
backend_generate_answer(vs, question, top_kArg, llm) ==
    IF IsBlank(question)
    THEN [calls  |-> <<>>,
          result |-> [answer |-> MSG_VALID_QUESTION, sources |-> <<>>,
                      confidence_score |-> P09Zero,
                      similarity_scores |-> <<>>]]
    ELSE backend_after_retrieval(question, llm,
             backend_retrieve_with_scores(vs, question,
                 IF top_kArg = DefaultK THEN settings_TOP_K_CHUNKS
                 ELSE top_kArg))

\* top_k: int = 5
AgentDefaultTopK == 5

\* the dict of the except branch (src/rag/generator.py)
agent_error(e) ==
    [answer |-> ErrorAnswer(e), sources |-> <<>>,
     related_questions |-> <<>>, context_used |-> <<>>]

\* generate_answer from the confidence block on, for a non-empty retrieval
agent_answer_from(question, llm, hits, conf) ==
    IF conf.raised THEN agent_error("confidence error")
    ELSE IF llm.raised THEN agent_error(llm.error)
    ELSE [answer  |-> _extract_answer(llm.text),
          sources |-> get_source_metadata(DocsOf(hits)),
          related_questions |-> <<>>,
          context_used |-> [i \in DOMAIN hits |-> hits[i].doc.page_content],
          raw_response |-> llm.text,
          confidence_score |-> conf.score,
          similarity_scores |-> Scores(hits)]

\* generate_answer once the retriever has answered
agent_after_retrieval(question, llm, retrieval) ==
    [calls  |-> retrieval.calls,
     result |->
        IF retrieval.raised THEN agent_error("retrieval error")
        ELSE IF retrieval.result = <<>>
        THEN [answer |-> MSG_NOT_FOUND, sources |-> <<>>,
              related_questions |-> <<>>, context_used |-> <<>>,
              confidence_score |-> P09Zero]
        ELSE agent_answer_from(question, llm, retrieval.result,
                 agent_confidence_score(question, retrieval.result))]

\* Generator.generate_answer of src/rag/generator.py
generate_answer(vs, question, top_kArg, llm) ==
    IF IsBlank(question)
    THEN [calls  |-> <<>>,
          result |-> [answer |-> MSG_VALID_QUESTION, sources |-> <<>>,
                      related_questions |-> <<>>, context_used |-> <<>>]]
    ELSE agent_after_retrieval(question, llm,
             retrieve_with_scores(vs, question,
                 IF top_kArg = DefaultK THEN AgentDefaultTopK ELSE top_kArg))

(***************************************************************************)
(* State.                                                                  *)
(***************************************************************************)
VARIABLES
    query,        \* the query string of the request
    k,            \* its k argument (DefaultK when omitted)
    vectorstore,  \* the index the retriever holds
    out,          \* what the operation returned; NoOut before it ran
    retrieved_docs_with_scores,  \* the pairs handed to the confidence block
    env,          \* the service's configuration: metadata database, object store
    disk,         \* the vector store saved under VECTOR_STORE_PATH
    upload_embedder,    \* _embedder of api/routes/upload.py
    query_side,         \* _embedder and _generator of api/routes/query.py
    objects,            \* uploaded files kept in S3 or in UPLOAD_DIR
    files,              \* the files collection of the metadata database
    chat_logs,          \* the number of entries of the chat_logs collection
    n_uploads,          \* upload requests received so far
    n_queries,          \* query requests received so far
    completed_uploads,  \* files whose upload request was answered with success
    response,           \* the response to the latest request
    response_text,      \* the reply of the text-generation call to be parsed
    inflight,           \* the query requests being handled, by request
    n_deletes,          \* delete requests received so far
    tmp_files,          \* uploads whose temporary file is still on disk
    data_dir,           \* the names of the files in DATA_DIR of the agent
    vectorstore_dir,    \* the index saved under VECTORSTORE_DIR
    session_state,      \* st.session_state of the browser session
    agent_out,          \* what the agent's latest operation did
    n_agent_ops         \* operations of the agent so far

pureVars == <<query, k, vectorstore, out, retrieved_docs_with_scores>>
apiVars == <<env, disk, upload_embedder, query_side, objects, files, chat_logs,
             n_uploads, n_queries, completed_uploads, response>>
agentVars == <<data_dir, vectorstore_dir, session_state, agent_out,
               n_agent_ops>>
vars == <<query, k, vectorstore, out, retrieved_docs_with_scores, env, disk,
          upload_embedder, query_side,
          objects, files, chat_logs, n_uploads, n_queries, completed_uploads,
          response, response_text, inflight, n_deletes, tmp_files, data_dir,
          vectorstore_dir, session_state, agent_out, n_agent_ops>>
\* the variables only the later specifications change
moreVars == <<response_text, inflight, n_deletes, tmp_files, data_dir, vectorstore_dir,
              session_state, agent_out, n_agent_ops>>
\* those of them the steps of a query request leave alone
otherVars == <<response_text, n_deletes, tmp_files, data_dir, vectorstore_dir,
               session_state, agent_out, n_agent_ops>>

\* a request that has not arrived
Idle == [pc |-> "idle"]
InFlight == {"q1", "q2"}

NoOut == [op |-> "none"]

\* VECTORSTORE_DIR without index.faiss; an index is the sequence of its
\* chunks, each named by the file it was cut from
NoIndex == [present |-> FALSE, chunks |-> <<>>]

\* initialize_session_state
FreshSession ==
    [vectorstore_loaded |-> FALSE,
     retriever |-> [loaded |-> FALSE, chunks |-> <<>>],
     generator |-> [loaded |-> FALSE, chunks |-> <<>>],
     uploaded_file_names |-> {},
     processed_file_hashes |-> {},
     processing |-> FALSE]

(***************************************************************************)
(* Inputs of the retrieval layer.                                          *)
(***************************************************************************)
DocCatDog == Doc(<<"C","a","t"," ","a","n","d"," ","d","o","g">>, "pets.txt", 0)
DocBirds  == Doc(<<"b","i","r","d","s">>, "pets.txt", 1)
DocCats   == Doc(<<"c","a","t","s">>, "zoo.txt", 0)
Docs == {DocCatDog, DocBirds, DocCats}

\* raw distances: below zero, inside (0, 2), and beyond 2
Dists == {<<-1, 2>>, <<2, 5>>, <<3, 1>>}

Queries == {
    <<>>,
    <<" ", "\t">>,
    <<"C","a","t"," ","d","o","g","?">>,
    <<"i","s"," ","i","t">>,
    <<"t","h","e"," ","c","a","t">> }

Hits == {Hit(d, x) : d \in Docs, x \in Dists}

\* candidate lists: distinct documents, nearest first
HitListsOfLen(n) ==
    {s \in [1..n -> Hits] :
        /\ \A i, j \in 1..n : i < j => s[i].doc # s[j].doc
        /\ \A i \in 1..(n - 1) : RLe(s[i].dist, s[i + 1].dist)}

\* a candidate list longer than the cap on retrieve_k
BigHits ==
    [i \in 1..(CandidateCap + 2) |->
        Hit(Doc((<<DocCatDog, DocBirds, DocCats>>)[(i % 3) + 1].page_content,
                "big.txt", i),
            Rat(i, 10))]

HitLists == UNION {HitListsOfLen(n) : n \in 0..MaxHits} \cup {BigHits}

\* what the index may hold for the raw query when it differs from the
\* expanded query's candidates
AltHits == <<Hit(DocBirds, <<2, 5>>), Hit(DocCatDog, <<3, 1>>)>>

\* which index calls of one retrieval raise
FailSets == {{}, {1}, {2}, {1, 2}, {2, 3}}

Ks == (1..MaxSmallK) \cup {CandidateCap + 1, DefaultK}

\* replies of the text-generation call
Replies == {
    <<"A","N","S","W","E","R",":"," ","o","k","\n",
      "S","O","U","R","C","E","S",":"," ","p">>,
    <<" ","o","k"," ">> }

LlmOutcomes ==
    {[raised |-> TRUE, error |-> "quota exceeded"]}
    \cup {[raised |-> FALSE, text |-> t] : t \in Replies}

VectorStores(q) ==
    {[cands   |-> [s \in {q, _expand_query(q)} |->
                      IF s = _expand_query(q) THEN e ELSE r],
      failing |-> f] :
        e \in HitLists, r \in {<<>>, AltHits}, f \in FailSets}
    \cup
    {[cands |-> [s \in {q, _expand_query(q)} |-> e], failing |-> f] :
        e \in HitLists, f \in FailSets}


(***************************************************************************)
(* The API service (src/backend): upload and query requests.               *)
(*                                                                         *)
(* A vector store is the sequence of the files whose chunks it holds, in   *)
(* the order they were added; every uploaded file yields one chunk.  The   *)
(* upload module and the query module each keep their own lazily created   *)
(* objects; the saved store on disk is what they share.  A handler runs to *)
(* its response in one step.  GEMINI_API_KEY is configured, so Embedder()  *)
(* itself does not raise.                                                  *)
(***************************************************************************)
MaxUploads == 2
MaxQueries == 2

\* mongodb_service.db is None, or a database handle; `if db:` on a handle
\* either is true or raises, depending on the installed driver
MongoModes == {"None", "truthy", "raises"}

Envs == [mongo : MongoModes, s3 : BOOLEAN]

NoStore == [present |-> FALSE, files |-> <<>>]
Store(fs) == [present |-> TRUE, files |-> fs]

NoEmbedder == [created |-> FALSE, loaded |-> FALSE, files |-> <<>>]
NoQuerySide == [embedder |-> FALSE, generator |-> FALSE, files |-> <<>>]

FileNames == <<"f1.txt", "f2.txt", "f3.txt", "f4.txt">>

\* the chunk of an uploaded file and the distance the index reports for it
FileChunk(f) ==
    Hit(Doc(IF f % 2 = 1 THEN DocCats.page_content ELSE DocBirds.page_content,
            FileNames[f], 0),
        Rat(f, 5))

\* the index a store answers from: its chunks, nearest first
ApiVectorStore(fs, q, failing) ==
    [cands   |-> [s \in {q, _expand_query(q)} |->
                     [i \in DOMAIN fs |-> FileChunk(fs[i])]],
     failing |-> failing]

\* what can go wrong in an upload request
UploadFaults == {"none", "bad_ext", "too_large", "tmp_write", "process", "embed", "save"}

\* request bodies of the query endpoint
ApiQuestions == {<<>>, <<" ", " ">>, <<"t","h","e"," ","c","a","t">>}
ApiTopKs == {DefaultK, 2, CandidateCap + 1}
ApiFailSets == {{}, {1, 2}}
ApiLlmOutcomes ==
    {[raised |-> TRUE, error |-> "quota exceeded"],
     [raised |-> FALSE, text |-> <<" ", "o", "k", " ">>]}

\* QueryRequest: question min_length=1; top_k default 5, ge=1, le=20
DefaultTopK == 5
MaxTopK == 20
ValidRequest(question, top_k) ==
    /\ Len(question) >= 1
    /\ top_k = DefaultK \/ (1 <= top_k /\ top_k <= MaxTopK)

InitApiState ==
    /\ disk = NoStore
    /\ upload_embedder = NoEmbedder
    /\ query_side = NoQuerySide
    /\ objects = {}
    /\ files = {}
    /\ chat_logs = 0
    /\ n_uploads = 0
    /\ n_queries = 0
    /\ completed_uploads = {}
    /\ response = [op |-> "none"]

\* get_embedder of api/routes/upload.py
get_embedder ==
    IF upload_embedder.created THEN upload_embedder
    ELSE [created |-> TRUE, loaded |-> disk.present, files |-> disk.files]

\* Embedder.add_documents for the chunk of file f; embed_fails: the
\* embedding call raises
add_documents(embedder, f, embed_fails) ==
    LET base == IF embedder.loaded THEN embedder.files ELSE disk.files
        have == embedder.loaded \/ disk.present
    IN  IF embed_fails
        THEN [raised |-> TRUE,
              embedder |-> [created |-> TRUE, loaded |-> have, files |-> base]]
        ELSE [raised |-> FALSE,
              embedder |-> [created |-> TRUE, loaded |-> TRUE,
                            files |-> Append(base, f)]]

UploadResponse(status, f) == [op |-> "upload", status |-> status, file |-> f]

\* upload_file rejected by the extension or the size test
UploadRejected(fault) ==
    /\ fault \in {"bad_ext", "too_large"}
    /\ response' = UploadResponse(400, n_uploads + 1)
    /\ UNCHANGED <<disk, upload_embedder, objects, files, completed_uploads>>
    /\ UNCHANGED tmp_files

\* NamedTemporaryFile(delete=False) has created the temporary file of upload f
Created(f) == tmp_files \cup {f}

\* the finally block of upload_file: the temporary file of upload f is removed
Removed(tmp, f) == tmp \ {f}

\* upload_file when the write to the temporary file raises: tmp_path is not
\* bound yet and the handler's finally block is not entered
UploadTempWriteFails(fault) ==
    /\ fault = "tmp_write"
    /\ response' = UploadResponse(500, n_uploads + 1)
    /\ tmp_files' = Created(n_uploads + 1)
    /\ UNCHANGED <<disk, upload_embedder, objects, files, completed_uploads>>

\* upload_file when load_document or split_documents raises: the temporary
\* file is removed, nothing is stored
UploadUnreadable(fault) ==
    /\ fault = "process"
    /\ response' = UploadResponse(500, n_uploads + 1)
    /\ tmp_files' = Removed(Created(n_uploads + 1), n_uploads + 1)
    /\ UNCHANGED <<disk, upload_embedder, objects, files, completed_uploads>>

\* a variant that marks the record as processed when it is inserted
UploadStored_MarksWhenInserted(fault) ==
    LET f == n_uploads + 1
        object == [file |-> f, where |-> IF env.s3 THEN "s3" ELSE "local"]
        record(p) == [file_id |-> f, processed |-> p]
        added == add_documents(get_embedder, f, fault = "embed")
    IN  /\ fault \in {"none", "embed", "save"}
        /\ objects' = objects \cup {object}
        /\ tmp_files' = Removed(Created(f), f)
        /\ IF env.mongo = "raises"
           THEN /\ response' = UploadResponse(500, f)
                /\ UNCHANGED <<disk, upload_embedder, files, completed_uploads>>
           ELSE /\ upload_embedder' = added.embedder
                /\ IF added.raised \/ fault = "save"
                   THEN /\ response' = UploadResponse(500, f)
                        /\ files' = IF env.mongo = "truthy"
                                    THEN files \cup {record(TRUE)} ELSE files
                        /\ UNCHANGED <<disk, completed_uploads>>
                   ELSE /\ disk' = Store(added.embedder.files)
                        /\ files' = IF env.mongo = "truthy"
                                    THEN files \cup {record(TRUE)} ELSE files
                        /\ completed_uploads' = completed_uploads \cup {f}
                        /\ response' = UploadResponse(200, f)

\* upload_file from the storing of the file on
UploadStored(fault) ==
    LET f == n_uploads + 1
        object == [file |-> f, where |-> IF env.s3 THEN "s3" ELSE "local"]
        record(p) == [file_id |-> f, processed |-> p]
        added == add_documents(get_embedder, f, fault = "embed")
    IN  /\ fault \in {"none", "embed", "save"}
        /\ objects' = objects \cup {object}
        /\ tmp_files' = Removed(Created(f), f)
        /\ IF env.mongo = "raises"
           THEN /\ response' = UploadResponse(500, f)
                /\ UNCHANGED <<disk, upload_embedder, files, completed_uploads>>
           ELSE /\ upload_embedder' = added.embedder
                /\ IF added.raised \/ fault = "save"
                   THEN /\ response' = UploadResponse(500, f)
                        /\ files' = IF env.mongo = "truthy"
                                    THEN files \cup {record(FALSE)} ELSE files
                        /\ UNCHANGED <<disk, completed_uploads>>
                   ELSE /\ disk' = Store(added.embedder.files)
                        /\ files' = IF env.mongo = "truthy"
                                    THEN files \cup {record(TRUE)} ELSE files
                        /\ completed_uploads' = completed_uploads \cup {f}
                        /\ response' = UploadResponse(200, f)

\* POST /api/upload/
upload_file ==
    /\ n_uploads < MaxUploads
    /\ n_uploads' = n_uploads + 1
    /\ \E fault \in UploadFaults :
          \/ UploadRejected(fault)
          \/ UploadTempWriteFails(fault)
          \/ UploadUnreadable(fault)
          \/ UploadStored(fault)
    /\ UNCHANGED <<env, chat_logs, n_queries, query_side>>
    /\ UNCHANGED pureVars
    /\ UNCHANGED <<response_text, inflight, n_deletes>>
    /\ UNCHANGED agentVars

\* get_generator of api/routes/query.py: the generator is built once, over the
\* store as it is on disk at that moment
get_generator ==
    IF query_side.generator THEN [status |-> 200, side |-> query_side]
    ELSE IF disk.present
    THEN [status |-> 200,
          side |-> [embedder |-> TRUE, generator |-> TRUE, files |-> disk.files]]
    ELSE [status |-> 404,
          side |-> [embedder |-> TRUE, generator |-> FALSE, files |-> <<>>]]

QueryResponse(status, question, index, calls, llm, result) ==
    [op |-> "query", status |-> status, question |-> question,
     index |-> index, calls |-> calls, llm |-> llm, result |-> result]

NoResult == [answer |-> <<>>]

\* query_knowledge_base once get_generator has returned the generator:
\* generated is what generate_answer returned
QueryAnswered(question, llm, side, generated) ==
    /\ query_side' = side
    /\ chat_logs' = IF env.mongo = "truthy" THEN chat_logs + 1 ELSE chat_logs
    /\ response' =
          QueryResponse(
              IF env.mongo = "raises" THEN 500
              ELSE IF "timestamp" \in DOMAIN generated.result THEN 200
              ELSE 500,
              question, side.files, generated.calls, llm, generated.result)

\* query_knowledge_base for a request that passed validation
QueryHandled(question, top_k, failing, llm, got) ==
    IF got.status # 200
    THEN /\ response' = QueryResponse(got.status, question, <<>>, <<>>, llm,
                                       NoResult)
         /\ query_side' = got.side
         /\ UNCHANGED chat_logs
    ELSE QueryAnswered(question, llm, got.side,
             backend_generate_answer(
                 ApiVectorStore(got.side.files, question, failing),
                 question, top_k, llm))

\* POST /api/query/
query_knowledge_base ==
    /\ n_queries < MaxQueries
    /\ n_queries' = n_queries + 1
    /\ \E question \in ApiQuestions, top_k \in ApiTopKs,
          failing \in ApiFailSets, llm \in ApiLlmOutcomes :
          IF ~ValidRequest(question, top_k)
          THEN /\ response' = QueryResponse(422, question, <<>>, <<>>, llm,
                                             NoResult)
               /\ UNCHANGED <<query_side, chat_logs>>
          ELSE QueryHandled(question,
                            IF top_k = DefaultK THEN DefaultTopK ELSE top_k,
                            failing, llm, get_generator)
    /\ UNCHANGED <<env, disk, upload_embedder, objects, files, n_uploads,
                   completed_uploads>>
    /\ UNCHANGED pureVars
    /\ UNCHANGED moreVars

(***************************************************************************)
(* DELETE /api/files/{file_id} (src/backend/api/routes/files.py).          *)
(***************************************************************************)
MaxDeletes == 1

\* the ids a client may send for file f: the _id MongoDB gave the record, or
\* the file_id (a uuid) the upload response carries
DeleteIds == [of : 1..(MaxUploads + 1), kind : {"_id", "file_id"}]

DeleteFaults == {"none", "s3_error", "db_error"}

NoRecord == [found |-> FALSE, raised |-> FALSE]

\* MongoDBService.get_file_metadata: the record whose _id is ObjectId(id);
\* ObjectId of a uuid raises InvalidId, which is caught
get_file_metadata(id) ==
    IF env.mongo = "raises" THEN [found |-> FALSE, raised |-> TRUE]
    ELSE IF env.mongo = "None" \/ id.kind # "_id" THEN NoRecord
    ELSE IF \E rec \in files : rec.file_id = id.of
    THEN [found |-> TRUE, raised |-> FALSE,
          record |-> CHOOSE rec \in files : rec.file_id = id.of]
    ELSE NoRecord

DeleteResponse(status, id, deleted) ==
    [op |-> "delete", status |-> status, file_id |-> id, deleted |-> deleted]

\* delete_file once the record was found: s3_service.delete_file raises
\* without a client; a ClientError is logged and ignored
DeleteFound(id, record, fault) ==
    IF ~env.s3
    THEN /\ response' = DeleteResponse(500, id, FALSE)
         /\ UNCHANGED <<objects, files>>
    ELSE /\ objects' = IF fault = "s3_error" THEN objects
                       ELSE objects \ {[file |-> id.of, where |-> "s3"]}
         /\ IF fault = "db_error"
            THEN /\ response' = DeleteResponse(500, id, FALSE)
                 /\ UNCHANGED files
            ELSE /\ response' = DeleteResponse(200, id, TRUE)
                 /\ files' = files \ {record}

\* DELETE /api/files/{file_id}
delete_file ==
    /\ n_deletes < MaxDeletes
    /\ n_deletes' = n_deletes + 1
    /\ \E id \in DeleteIds, fault \in DeleteFaults :
          LET file_data == get_file_metadata(id)
          IN  IF file_data.raised
              THEN /\ response' = DeleteResponse(500, id, FALSE)
                   /\ UNCHANGED <<objects, files>>
              ELSE IF ~file_data.found
              THEN /\ response' = DeleteResponse(404, id, FALSE)
                   /\ UNCHANGED <<objects, files>>
              ELSE DeleteFound(id, file_data.record, fault)
    /\ UNCHANGED <<env, disk, upload_embedder, query_side, chat_logs,
                   n_uploads, n_queries, completed_uploads>>
    /\ UNCHANGED pureVars
    /\ UNCHANGED <<response_text, inflight, tmp_files>>
    /\ UNCHANGED agentVars

InitApi ==
    /\ query = <<>>
    /\ k = DefaultK
    /\ vectorstore = [cands |-> [s \in {<<>>} |-> <<>>], failing |-> {}]
    /\ out = NoOut
    /\ retrieved_docs_with_scores = <<>>
    /\ env \in Envs
    /\ InitApiState
    /\ response_text = <<>>
    /\ inflight = [r \in InFlight |-> Idle]
    /\ n_agent_ops = 0
    /\ agent_out = NoOut
    /\ session_state = FreshSession
    /\ vectorstore_dir = NoIndex
    /\ data_dir = {}
    /\ n_deletes = 0
    /\ tmp_files = {}

NextApi ==
    \/ upload_file
    \/ query_knowledge_base
    \/ delete_file

SpecApi == InitApi /\ [][NextApi]_vars

\* the requests that write the stored files, the metadata records and the
\* saved vector store, without the query requests (which read them)
NextFiles ==
    \/ upload_file
    \/ delete_file

SpecFiles == InitApi /\ [][NextFiles]_vars

(***************************************************************************)
(* The retrieval layer: one call of an operation on enumerated inputs.     *)
(***************************************************************************)
InitPure ==
    /\ query \in Queries
    /\ k \in Ks
    /\ vectorstore \in VectorStores(query)
    /\ out = NoOut
    /\ retrieved_docs_with_scores = <<>>
    /\ env = [mongo |-> "None", s3 |-> FALSE]
    /\ InitApiState
    /\ response_text = <<>>
    /\ inflight = [r \in InFlight |-> Idle]
    /\ n_agent_ops = 0
    /\ agent_out = NoOut
    /\ session_state = FreshSession
    /\ vectorstore_dir = NoIndex
    /\ data_dir = {}
    /\ n_deletes = 0
    /\ tmp_files = {}

AgentRetrieveWithScores ==
    /\ out = NoOut
    /\ out' = [op |-> "agent.retrieve_with_scores",
               ret |-> retrieve_with_scores(vectorstore, query, k)]
    /\ UNCHANGED <<query, k, vectorstore, retrieved_docs_with_scores>>
    /\ UNCHANGED apiVars
    /\ UNCHANGED moreVars

BackendRetrieveWithScores ==
    /\ out = NoOut
    /\ out' = [op |-> "backend.retrieve_with_scores",
               ret |-> backend_retrieve_with_scores(vectorstore, query, k)]
    /\ UNCHANGED <<query, k, vectorstore, retrieved_docs_with_scores>>
    /\ UNCHANGED apiVars
    /\ UNCHANGED moreVars

AgentRetrieve ==
    /\ out = NoOut
    /\ out' = [op |-> "agent.retrieve", ret |-> retrieve(vectorstore, query, k)]
    /\ UNCHANGED <<query, k, vectorstore, retrieved_docs_with_scores>>
    /\ UNCHANGED apiVars
    /\ UNCHANGED moreVars

AgentGenerateAnswer ==
    /\ out = NoOut
    /\ \E llm \in LlmOutcomes :
          out' = [op |-> "agent.generate_answer", llm |-> llm,
                  ret |-> generate_answer(vectorstore, query, k, llm)]
    /\ UNCHANGED <<query, k, vectorstore, retrieved_docs_with_scores>>
    /\ UNCHANGED apiVars
    /\ UNCHANGED moreVars

BackendGenerateAnswer ==
    /\ out = NoOut
    /\ \E llm \in LlmOutcomes :
          out' = [op |-> "backend.generate_answer", llm |-> llm,
                  ret |-> backend_generate_answer(vectorstore, query, k, llm)]
    /\ UNCHANGED <<query, k, vectorstore, retrieved_docs_with_scores>>
    /\ UNCHANGED apiVars
    /\ UNCHANGED moreVars

\* Retriever.format_context on the documents a retrieval returned
FormatContext ==
    /\ out = NoOut
    /\ out' = [op |-> "format_context",
               documents |-> retrieve(vectorstore, query, k).result,
               ret |-> format_context(retrieve(vectorstore, query, k).result)]
    /\ UNCHANGED <<query, k, vectorstore, retrieved_docs_with_scores>>
    /\ UNCHANGED apiVars
    /\ UNCHANGED moreVars

\* the index after a get_source_metadata that stored the preview in the
\* metadata of the chunk itself
PreviewStored(vs, documents) ==
    [vs EXCEPT !.cands =
        [s \in DOMAIN vs.cands |->
            [i \in DOMAIN vs.cands[s] |->
                IF vs.cands[s][i].doc \in Range(documents)
                THEN [vs.cands[s][i] EXCEPT !.doc.page_content =
                         content_preview(@) \o <<".">>]
                ELSE vs.cands[s][i]]]]

\* a variant that writes into the chunks it reads
GetSourceMetadata_WritesChunk ==
    /\ out = NoOut
    /\ out' = [op |-> "get_source_metadata",
               documents |-> retrieve(vectorstore, query, k).result,
               ret |-> get_source_metadata(
                           retrieve(vectorstore, query, k).result)]
    /\ vectorstore' =
          PreviewStored(vectorstore, retrieve(vectorstore, query, k).result)
    /\ UNCHANGED <<query, k, retrieved_docs_with_scores>>
    /\ UNCHANGED apiVars
    /\ UNCHANGED moreVars

\* Retriever.get_source_metadata on the documents a retrieval returned
GetSourceMetadata ==
    /\ out = NoOut
    /\ out' = [op |-> "get_source_metadata",
               documents |-> retrieve(vectorstore, query, k).result,
               ret |-> get_source_metadata(
                           retrieve(vectorstore, query, k).result)]
    /\ UNCHANGED <<query, k, vectorstore, retrieved_docs_with_scores>>
    /\ UNCHANGED apiVars
    /\ UNCHANGED moreVars

Next ==
    \/ AgentRetrieveWithScores
    \/ BackendRetrieveWithScores
    \/ AgentRetrieve
    \/ AgentGenerateAnswer
    \/ BackendGenerateAnswer
    \/ FormatContext
    \/ GetSourceMetadata

Spec == InitPure /\ [][Next]_vars

(***************************************************************************)
(* The scoring computations on their own: keyword extraction on a query,   *)
(* and the confidence block of generate_answer on a question and the pairs *)
(* the retriever handed over.  The block is reached only with a non-empty  *)
(* list (generate_answer returns before it otherwise).                     *)
(***************************************************************************)
MaxChunks == 3

ScoringDocs == {DocCatDog, DocCats}

\* raw distances: scenario values, the maximum 2.0, and beyond it
ScoringDists == {<<1, 5>>, <<3, 10>>, <<2, 5>>, <<2, 1>>, <<3, 1>>}

\* the first document at every distance, the second at three of them
ScoringHits ==
    {Hit(DocCatDog, x) : x \in ScoringDists}
    \cup {Hit(DocCats, x) : x \in {<<1, 5>>, <<2, 5>>, <<2, 1>>}}

ScoringHitLists == UNION {[1..n -> ScoringHits] : n \in 1..MaxChunks}

\* questions: every word in "Cat and dog"; one word of two; no word at all
ScoringQuestions == {
    <<"C","a","t"," ","d","o","g","?">>,
    <<"t","h","e"," ","c","a","t">>,
    <<"?","!">> }

CapitalOfFrance ==
    <<"W","h","a","t"," ","i","s"," ","t","h","e"," ",
      "c","a","p","i","t","a","l"," ","o","f"," ",
      "F","r","a","n","c","e","?">>

KeywordQueries == Queries \cup {
    CapitalOfFrance,
    <<"C","a","t","s"," ","c","a","t","s"," ","D","o","g">>,
    <<"d","o","n","'","t"," ","u","s","e"," ","r","e","-","r","u","n","s",
      " ","o","f"," ","i","t">>,
    <<"-","c","a","t","-"," ","a","_","b","c","d"," ","x","2">> }

InitScoring ==
    /\ \/ query \in KeywordQueries /\ retrieved_docs_with_scores = <<>>
       \/ /\ query \in ScoringQuestions
          /\ retrieved_docs_with_scores \in ScoringHitLists
    /\ k = DefaultK
    /\ vectorstore = [cands |-> [s \in {<<>>} |-> <<>>], failing |-> {}]
    /\ out = NoOut
    /\ env = [mongo |-> "None", s3 |-> FALSE]
    /\ InitApiState
    /\ response_text = <<>>
    /\ inflight = [r \in InFlight |-> Idle]
    /\ n_agent_ops = 0
    /\ agent_out = NoOut
    /\ session_state = FreshSession
    /\ vectorstore_dir = NoIndex
    /\ data_dir = {}
    /\ n_deletes = 0
    /\ tmp_files = {}

\* Retriever._extract_keywords(query)
ExtractKeywords ==
    /\ out = NoOut
    /\ out' = [op |-> "_extract_keywords", ret |-> _extract_keywords(query)]
    /\ UNCHANGED <<query, k, vectorstore, retrieved_docs_with_scores>>
    /\ UNCHANGED apiVars
    /\ UNCHANGED moreVars

\* the confidence block of src/backend/rag/generator.py
BackendConfidenceBlock ==
    /\ out = NoOut
    /\ retrieved_docs_with_scores # <<>>
    /\ out' = [op |-> "backend.confidence",
               ret |-> confidence_breakdown(query, retrieved_docs_with_scores)]
    /\ UNCHANGED <<query, k, vectorstore, retrieved_docs_with_scores>>
    /\ UNCHANGED apiVars
    /\ UNCHANGED moreVars

\* the confidence block of src/rag/generator.py
AgentConfidenceBlock ==
    /\ out = NoOut
    /\ retrieved_docs_with_scores # <<>>
    /\ out' = [op |-> "agent.confidence",
               ret |-> agent_confidence_score(query,
                                              retrieved_docs_with_scores)]
    /\ UNCHANGED <<query, k, vectorstore, retrieved_docs_with_scores>>
    /\ UNCHANGED apiVars
    /\ UNCHANGED moreVars

NextScoring ==
    \/ ExtractKeywords
    \/ BackendConfidenceBlock
    \/ AgentConfidenceBlock

SpecScoring == InitScoring /\ [][NextScoring]_vars

(***************************************************************************)
(* The parsing of a reply on its own: _extract_answer on enumerated        *)
(* replies.                                                                *)
(***************************************************************************)
\* longest reply, counted in pieces
MaxPieces == 4

\* what replies are made of: the two markers, a marker in lower case, blank
\* and plain text
ReplyPieces ==
    {ANSWER_MARK, SOURCES_MARK, <<"a","n","s","w","e","r",":">>, <<" ">>,
     <<"o","k">>}

RECURSIVE Concat(_)
Concat(ps) == IF ps = <<>> THEN <<>> ELSE Head(ps) \o Concat(Tail(ps))

\* response.text of a text-generation call that returned
ReplyTexts ==
    {Concat(ps) : ps \in UNION {[1..n -> ReplyPieces] : n \in 0..MaxPieces}}

InitParsing ==
    /\ response_text \in ReplyTexts
    /\ query = <<>>
    /\ k = DefaultK
    /\ vectorstore = [cands |-> [s \in {<<>>} |-> <<>>], failing |-> {}]
    /\ retrieved_docs_with_scores = <<>>
    /\ out = NoOut
    /\ env = [mongo |-> "None", s3 |-> FALSE]
    /\ InitApiState
    /\ inflight = [r \in InFlight |-> Idle]
    /\ n_agent_ops = 0
    /\ agent_out = NoOut
    /\ session_state = FreshSession
    /\ vectorstore_dir = NoIndex
    /\ data_dir = {}
    /\ n_deletes = 0
    /\ tmp_files = {}

\* Generator._extract_answer(response_text)
ExtractAnswer ==
    /\ out = NoOut
    /\ out' = [op |-> "_extract_answer", ret |-> _extract_answer(response_text)]
    /\ UNCHANGED <<query, k, vectorstore, retrieved_docs_with_scores>>
    /\ UNCHANGED apiVars
    /\ UNCHANGED moreVars

NextParsing == ExtractAnswer

SpecParsing == InitParsing /\ [][NextParsing]_vars

(***************************************************************************)
(* Query requests in flight in one process of the API service.  The index  *)
(* on disk does not change while they run.  A request advances one         *)
(* statement group of query_knowledge_base at a time, which covers the     *)
(* event loop (a request runs up to its await) as well as handlers run in  *)
(* threads.                                                                *)
(***************************************************************************)
\* the stores on disk a process may start with
StartStores == {<<>>, <<1>>, <<1, 2>>}

\* request bodies, with the failures the request will meet
InFlightRequests ==
    [question : {<<"t","h","e"," ","c","a","t">>},
     top_k    : {DefaultTopK, 1},
     failing  : ApiFailSets,
     llm      : ApiLlmOutcomes]

InitConcurrent ==
    /\ query = <<>>
    /\ k = DefaultK
    /\ vectorstore = [cands |-> [s \in {<<>>} |-> <<>>], failing |-> {}]
    /\ out = NoOut
    /\ retrieved_docs_with_scores = <<>>
    /\ response_text = <<>>
    /\ env \in {e \in Envs : ~e.s3}
    /\ \E fs \in StartStores :
          /\ disk = IF fs = <<>> THEN NoStore ELSE Store(fs)
          /\ objects = {[file |-> fs[i], where |-> "local"] : i \in DOMAIN fs}
          /\ files = IF env.mongo = "truthy"
                     THEN {[file_id |-> fs[i], processed |-> TRUE] :
                              i \in DOMAIN fs}
                     ELSE {}
          /\ n_uploads = Len(fs)
          /\ completed_uploads = {fs[i] : i \in DOMAIN fs}
    /\ upload_embedder = NoEmbedder
    /\ query_side = NoQuerySide
    /\ chat_logs = 0
    /\ n_queries = 0
    /\ response = [op |-> "none"]
    /\ inflight = [r \in InFlight |-> Idle]
    /\ n_agent_ops = 0
    /\ agent_out = NoOut
    /\ session_state = FreshSession
    /\ vectorstore_dir = NoIndex
    /\ data_dir = {}
    /\ n_deletes = 0
    /\ tmp_files = {}

\* what no step of a query request touches
QueryFrame ==
    /\ UNCHANGED <<env, disk, upload_embedder, objects, files, n_uploads,
                   completed_uploads>>
    /\ UNCHANGED pureVars
    /\ UNCHANGED otherVars

\* the request reaches query_knowledge_base; earlier: the requests answered
\* before this one arrived
Receive(r) ==
    /\ inflight[r].pc = "idle"
    /\ \E req \in InFlightRequests :
          inflight' = [inflight EXCEPT ![r] =
              [pc |-> "get_generator", request |-> req,
               earlier |-> {s \in InFlight : inflight[s].pc = "done"},
               constructed |-> FALSE, generator |-> <<>>,
               generated |-> [calls |-> <<>>, result |-> NoResult],
               status |-> 0]]
    /\ n_queries' = n_queries + 1
    /\ UNCHANGED <<query_side, chat_logs, response>>
    /\ QueryFrame

\* get_generator: if _generator is None
CheckGenerator(r) ==
    /\ inflight[r].pc = "get_generator"
    /\ inflight' = [inflight EXCEPT ![r].pc =
                       IF query_side.generator THEN "return" ELSE "construct"]
    /\ UNCHANGED <<query_side, chat_logs, response, n_queries>>
    /\ QueryFrame

\* a variant that keeps the generator of a failed construction
ConstructGenerator_KeepsFailedGenerator(r) ==
    /\ inflight[r].pc = "construct"
    /\ IF disk.present
       THEN /\ query_side' = [embedder |-> TRUE, generator |-> TRUE,
                              files |-> disk.files]
            /\ inflight' = [inflight EXCEPT ![r].pc = "return",
                                            ![r].constructed = TRUE]
            /\ UNCHANGED response
       ELSE /\ query_side' = [embedder |-> TRUE, generator |-> TRUE,
                              files |-> <<>>]
            /\ response' = QueryResponse(404, inflight[r].request.question,
                               <<>>, <<>>, inflight[r].request.llm, NoResult)
            /\ inflight' = [inflight EXCEPT ![r].pc = "done",
                                            ![r].constructed = TRUE,
                                            ![r].status = 404]
    /\ UNCHANGED <<chat_logs, n_queries>>
    /\ QueryFrame

\* get_generator: Embedder(), load_vectorstore(), Retriever, Generator; a
\* missing store is answered with 404
ConstructGenerator(r) ==
    /\ inflight[r].pc = "construct"
    /\ IF disk.present
       THEN /\ query_side' = [embedder |-> TRUE, generator |-> TRUE,
                              files |-> disk.files]
            /\ inflight' = [inflight EXCEPT ![r].pc = "return",
                                            ![r].constructed = TRUE]
            /\ UNCHANGED response
       ELSE /\ query_side' = [query_side EXCEPT !.embedder = TRUE]
            /\ response' = QueryResponse(404, inflight[r].request.question,
                               <<>>, <<>>, inflight[r].request.llm, NoResult)
            /\ inflight' = [inflight EXCEPT ![r].pc = "done",
                                            ![r].constructed = TRUE,
                                            ![r].status = 404]
    /\ UNCHANGED <<chat_logs, n_queries>>
    /\ QueryFrame

\* get_generator: return _generator
ReturnGenerator(r) ==
    /\ inflight[r].pc = "return"
    /\ inflight' = [inflight EXCEPT ![r].pc = "generate",
                                    ![r].generator = query_side.files]
    /\ UNCHANGED <<query_side, chat_logs, response, n_queries>>
    /\ QueryFrame

\* a variant in which a failed index call empties the retriever's store
GenerateAnswer_FailureDropsStore(r) ==
    LET req == inflight[r].request
    IN  /\ inflight[r].pc = "generate"
        /\ inflight' = [inflight EXCEPT ![r].pc = "log",
              ![r].generated =
                  backend_generate_answer(
                      ApiVectorStore(inflight[r].generator, req.question,
                                     req.failing),
                      req.question, req.top_k, req.llm)]
        /\ query_side' = IF req.failing = {} THEN query_side
                         ELSE [query_side EXCEPT !.files = <<>>]
        /\ UNCHANGED <<chat_logs, response, n_queries>>
        /\ QueryFrame

\* generator.generate_answer(question, top_k)
GenerateAnswer(r) ==
    LET req == inflight[r].request
    IN  /\ inflight[r].pc = "generate"
        /\ inflight' = [inflight EXCEPT ![r].pc = "log",
              ![r].generated =
                  backend_generate_answer(
                      ApiVectorStore(inflight[r].generator, req.question,
                                     req.failing),
                      req.question, req.top_k, req.llm)]
        /\ UNCHANGED <<query_side, chat_logs, response, n_queries>>
        /\ QueryFrame

\* insert_chat_log and the response
LogAndRespond(r) ==
    LET req == inflight[r].request
    IN  /\ inflight[r].pc = "log"
        /\ QueryAnswered(req.question, req.llm, query_side,
                         inflight[r].generated)
        /\ inflight' = [inflight EXCEPT ![r].pc = "done",
                                        ![r].status = response'.status]
        /\ UNCHANGED n_queries
        /\ QueryFrame

NextConcurrent ==
    \E r \in InFlight :
        \/ Receive(r)
        \/ CheckGenerator(r)
        \/ ConstructGenerator(r)
        \/ ReturnGenerator(r)
        \/ GenerateAnswer(r)
        \/ LogAndRespond(r)

SpecConcurrent == InitConcurrent /\ [][NextConcurrent]_vars

(***************************************************************************)
(* The Streamlit agent (src/app.py): one browser session at a time over    *)
(* DATA_DIR and VECTORSTORE_DIR.  A file is named by its file name; every  *)
(* file with text yields one chunk.  An operation is one run of main()     *)
(* for a user action, from the action to the end of the script.            *)
(***************************************************************************)
MaxAgentOps == 3

\* the files a user may upload, in the order they are listed
FileOrder == <<"a.txt", "b.txt", "empty.pdf">>
AgentFiles == Range(FileOrder)

\* files for which loader.load() returns no document (a PDF without pages)
NoPages == {"empty.pdf"}

\* what the file uploader may hold
Batches == (SUBSET AgentFiles) \ {{}}

\* the embedding call succeeds or raises
ProcessFaults == {"none", "embed"}

\* the chunks of the documents loaded from the files fs
ChunksOf(fs) ==
    SelectSeq(FileOrder, LAMBDA f : f \in fs /\ f \notin NoPages)

Index(chunks) == [present |-> TRUE, chunks |-> chunks]

\* session state once a retriever and a generator over the index are set
Loaded(session, index) ==
    [session EXCEPT !.retriever = [loaded |-> TRUE, chunks |-> index.chunks],
                    !.generator = [loaded |-> TRUE, chunks |-> index.chunks],
                    !.vectorstore_loaded = TRUE]

\* the rest of main() after the upload section: the file list refreshes
\* uploaded_file_names, and an index on disk is loaded when none is loaded
MainTail(session, dir, index) ==
    LET listed == [session EXCEPT !.uploaded_file_names = dir]
    IN  IF ~listed.vectorstore_loaded /\ index.present
        THEN Loaded(listed, index)
        ELSE listed

\* process_documents: save every uploaded file, load and split them all,
\* add the chunks to the index on disk or create it, load it into the session
process_documents(uploaded_files, fault) ==
    LET saved == data_dir \cup uploaded_files
        chunks == ChunksOf(uploaded_files)
        index == IF vectorstore_dir.present
                 THEN Index(vectorstore_dir.chunks \o chunks)
                 ELSE Index(chunks)
    IN  IF chunks = <<>> \/ fault = "embed"
        THEN [ret |-> FALSE, dir |-> saved, index |-> vectorstore_dir,
              session |-> session_state]
        ELSE [ret |-> TRUE, dir |-> saved, index |-> index,
              session |->
                 [Loaded(session_state, index)
                     EXCEPT !.uploaded_file_names = saved]]

Hashed(session, batch) ==
    [session EXCEPT !.processed_file_hashes = @ \cup {batch}]

\* main(): the file uploader holds a batch
UploadBatch ==
    /\ n_agent_ops < MaxAgentOps
    /\ n_agent_ops' = n_agent_ops + 1
    /\ \E batch \in Batches, fault \in ProcessFaults :
          LET done == process_documents(batch, fault)
          IN  IF batch \in session_state.processed_file_hashes
              THEN /\ agent_out' = [op |-> "upload", batch |-> batch,
                                    processed |-> FALSE, ret |-> FALSE]
                   /\ session_state' =
                         MainTail(session_state, data_dir, vectorstore_dir)
                   /\ UNCHANGED <<data_dir, vectorstore_dir>>
              ELSE IF batch \subseteq data_dir
              THEN /\ agent_out' = [op |-> "upload", batch |-> batch,
                                    processed |-> FALSE, ret |-> FALSE]
                   /\ session_state' =
                         MainTail(Hashed(session_state, batch), data_dir,
                                  vectorstore_dir)
                   /\ UNCHANGED <<data_dir, vectorstore_dir>>
              ELSE /\ agent_out' = [op |-> "upload", batch |-> batch,
                                    processed |-> TRUE, ret |-> done.ret]
                   /\ data_dir' = done.dir
                   /\ vectorstore_dir' = done.index
                   /\ session_state' =
                         MainTail(IF done.ret
                                  THEN Hashed(done.session, batch)
                                  ELSE done.session,
                                  done.dir, done.index)
    /\ UNCHANGED pureVars
    /\ UNCHANGED apiVars
    /\ UNCHANGED <<response_text, inflight, n_deletes, tmp_files>>

\* delete_file_from_kb for a file that exists: what it returns and leaves
delete_file_from_kb(file_name, fault) ==
    LET remaining == data_dir \ {file_name}
        removed == [session_state EXCEPT !.uploaded_file_names =
                                             @ \ {file_name}]
        chunks == ChunksOf(remaining)
    IN  IF remaining = {}
        THEN [ret |-> TRUE, dir |-> remaining, index |-> NoIndex,
              session |-> [removed EXCEPT
                              !.vectorstore_loaded = FALSE,
                              !.retriever = FreshSession.retriever,
                              !.generator = FreshSession.generator]]
        ELSE IF chunks = <<>>
        THEN [ret |-> TRUE, dir |-> remaining, index |-> NoIndex,
              session |-> removed]
        ELSE IF fault = "embed"
        THEN [ret |-> FALSE, dir |-> remaining, index |-> NoIndex,
              session |-> removed]
        ELSE [ret |-> TRUE, dir |-> remaining, index |-> Index(chunks),
              session |-> Loaded(removed, Index(chunks))]

\* main(): the delete button of a listed file
DeleteFile ==
    /\ n_agent_ops < MaxAgentOps
    /\ n_agent_ops' = n_agent_ops + 1
    /\ \E file_name \in AgentFiles, fault \in ProcessFaults :
          LET done == delete_file_from_kb(file_name, fault)
          IN  IF file_name \notin data_dir
              THEN /\ agent_out' = [op |-> "delete_file_from_kb",
                                    file_name |-> file_name, ret |-> FALSE]
                   /\ session_state' =
                         MainTail(session_state, data_dir, vectorstore_dir)
                   /\ UNCHANGED <<data_dir, vectorstore_dir>>
              ELSE /\ agent_out' = [op |-> "delete_file_from_kb",
                                    file_name |-> file_name,
                                    ret |-> done.ret]
                   /\ data_dir' = done.dir
                   /\ vectorstore_dir' = done.index
                   /\ session_state' =
                         MainTail(done.session, done.dir, done.index)
    /\ UNCHANGED pureVars
    /\ UNCHANGED apiVars
    /\ UNCHANGED <<response_text, inflight, n_deletes, tmp_files>>

\* a new browser session opens the page
NewSession ==
    /\ n_agent_ops < MaxAgentOps
    /\ n_agent_ops' = n_agent_ops + 1
    /\ session_state' = MainTail(FreshSession, data_dir, vectorstore_dir)
    /\ agent_out' = [op |-> "new_session"]
    /\ UNCHANGED <<data_dir, vectorstore_dir>>
    /\ UNCHANGED pureVars
    /\ UNCHANGED apiVars
    /\ UNCHANGED <<response_text, inflight, n_deletes, tmp_files>>

InitAgent ==
    /\ query = <<>>
    /\ k = DefaultK
    /\ vectorstore = [cands |-> [s \in {<<>>} |-> <<>>], failing |-> {}]
    /\ out = NoOut
    /\ retrieved_docs_with_scores = <<>>
    /\ env = [mongo |-> "None", s3 |-> FALSE]
    /\ InitApiState
    /\ response_text = <<>>
    /\ inflight = [r \in InFlight |-> Idle]
    /\ n_deletes = 0
    /\ tmp_files = {}
    /\ data_dir = {}
    /\ vectorstore_dir = NoIndex
    /\ session_state = FreshSession
    /\ agent_out = NoOut
    /\ n_agent_ops = 0

NextAgent ==
    \/ UploadBatch
    \/ DeleteFile
    \/ NewSession

SpecAgent == InitAgent /\ [][NextAgent]_vars

(***************************************************************************)
(* Properties of the retrieval layer.                                      *)
(***************************************************************************)
RetrievalOps == {"agent.retrieve_with_scores", "backend.retrieve_with_scores"}
GenerateOps == {"agent.generate_answer", "backend.generate_answer"}

\* retrieve_with_scores has returned
Retrieved == out.op \in RetrievalOps

\* the k in effect for the call
RequestedK ==
    IF k # DefaultK THEN k
    ELSE IF out.op = "backend.retrieve_with_scores" THEN settings_TOP_K_CHUNKS
    ELSE TOP_K_CHUNKS

\* no index call of the retrieval raised
NoCallRaised == \A n \in DOMAIN out.ret.calls : n \notin vectorstore.failing

\* the query is empty or whitespace only
BlankQuery == \A i \in DOMAIN query : query[i] \in Whitespace

\* the candidates the index holds for a query string
Held(s) == vectorstore.cands[s]

Min3(a, b, c) == Min2(a, Min2(b, c))

\* C1 as stated: retrieve_with_scores returns at most k pairs, and fewer
\* than k only when the index holds fewer than k candidates for the query
\* (read here for a non-blank query and an index whose calls all succeed).
C1_FewerOnlyIfIndexHasFewer ==
    (Retrieved /\ ~BlankQuery /\ vectorstore.failing = {}) =>
        /\ Len(out.ret.result) <= RequestedK
        /\ Len(out.ret.result) < RequestedK =>
              \E s \in DOMAIN vectorstore.cands : Len(Held(s)) < RequestedK

\* C1 amended: retrieve_with_scores returns at most k pairs; when no index
\* call raises it returns exactly min(k, 20, n) pairs, n being the number of
\* candidates held for the query string that was asked last (so never more
\* than 20, whatever k is); after a raised call it returns min(k, n) pairs of
\* the raw query, or none when the retry raises too.
C1_AtMostKAndCapped ==
    Retrieved =>
        LET r     == out.ret.result
            calls == out.ret.calls
        IN  /\ Len(r) <= RequestedK
            /\ BlankQuery => r = <<>>
            /\ (~BlankQuery /\ NoCallRaised) =>
                  Len(r) = Min3(RequestedK, CandidateCap,
                                Len(Held(calls[Len(calls)].query)))
            /\ (~BlankQuery /\ ~NoCallRaised) =>
                  Len(r) = IF Len(calls) \in vectorstore.failing THEN 0
                           ELSE Min2(RequestedK, Len(Held(query)))

\* a call with k above the cap, answered from more than k candidates, that
\* returned exactly the cap
C1_CapReached ==
    /\ Retrieved
    /\ NoCallRaised
    /\ out.ret.calls # <<>>
    /\ k > CandidateCap
    /\ Len(Held(out.ret.calls[1].query)) > k
    /\ Len(out.ret.result) = CandidateCap

\* similarity = 1 - min(distance / 2, 1) for distance > 0, and 1 otherwise
C2_Similarity(d) ==
    IF RLt(R0, d)
    THEN RSub(R1, IF RLt(RDiv(d, <<2, 1>>), R1) THEN RDiv(d, <<2, 1>>) ELSE R1)
    ELSE R1

\* keyword_match = matched keywords / keywords, 0 without keywords
C2_KeywordMatch(content) ==
    LET kws == _extract_keywords(query)
    IN  IF kws = <<>> THEN R0
        ELSE Rat(Cardinality({i \in DOMAIN kws :
                                Contains(Lower(content), kws[i])}),
                 Len(kws))

\* combined = 0.7 * similarity + 0.3 * keyword_match, from a returned pair
C2_Combined(h) ==
    RAdd(RMul(<<7, 10>>, C2_Similarity(h.dist)),
         RMul(<<3, 10>>, C2_KeywordMatch(h.doc.page_content)))

C2_NonIncreasing(r) ==
    \A i \in 1..(Len(r) - 1) : RLe(C2_Combined(r[i + 1]), C2_Combined(r[i]))

\* C2 as stated: every non-empty result of retrieve_with_scores is in
\* non-increasing order of combined score, computed from the returned raw
\* distances, the query's keywords and the chunk contents.
C2_SortedByCombinedScore ==
    (Retrieved /\ out.ret.result # <<>>) => C2_NonIncreasing(out.ret.result)

\* C2 amended: every non-empty result that retrieve_with_scores produced
\* without an index call raising is in non-increasing order of combined
\* score (after a raised call the result keeps the index's distance order).
C2_SortedWhenNoCallRaised ==
    (Retrieved /\ out.ret.result # <<>> /\ NoCallRaised) =>
        C2_NonIncreasing(out.ret.result)

\* a result in which the re-ranking put a farther chunk before a nearer one
C2_Reranked ==
    /\ Retrieved
    /\ NoCallRaised
    /\ Len(out.ret.result) >= 2
    /\ RLt(out.ret.result[2].dist, out.ret.result[1].dist)

\* C3: retrieve_with_scores never raises; a call of the enhanced path that
\* raises is followed by exactly one more call, the plain search with the raw
\* query and k, whose hits are the result; when that call raises too the
\* result is empty.
C3_NeverRaisesFallsBackOnce ==
    Retrieved =>
        LET r     == out.ret.result
            calls == out.ret.calls
            last  == Len(calls)
        IN  /\ ~out.ret.raised
            /\ \A n \in DOMAIN calls :
                  n \in vectorstore.failing =>
                     IF n = last
                     THEN n > 1 /\ (n - 1) \in vectorstore.failing /\ r = <<>>
                     ELSE /\ n + 1 = last
                          /\ calls[last] = [query |-> query, k |-> RequestedK]
                          /\ last \notin vectorstore.failing =>
                                r = Take(Held(query), RequestedK)

\* an index call raised and the plain search delivered a non-empty result
C3_FellBack ==
    /\ Retrieved
    /\ ~NoCallRaised
    /\ out.ret.result # <<>>
    /\ out.ret.result = Take(Held(query), RequestedK)

\* C4: for an empty or whitespace-only query retrieve_with_scores and
\* retrieve return the empty list, without any index call and without
\* raising.
C4_BlankQueryNoIndexCall ==
    (out.op \in RetrievalOps \cup {"agent.retrieve"} /\ BlankQuery) =>
        /\ out.ret.result = <<>>
        /\ out.ret.calls = <<>>
        /\ ~out.ret.raised

\* a whitespace-only query was answered while the index held candidates
C4_WhitespaceQueryAnswered ==
    /\ Retrieved
    /\ query = <<" ", "\t">>
    /\ Held(query) # <<>>
    /\ out.ret.result = <<>>

\* C8: whenever generate_answer retrieved a non-empty list and the text
\* generation answered, it returns a confidence score, and every confidence
\* score it returns lies in [0, 1], whatever the distances are.
C8_ConfidenceInUnitInterval ==
    out.op \in GenerateOps =>
        LET res == out.ret.result
        IN  /\ "confidence_score" \in DOMAIN res =>
                  P09InUnit(res.confidence_score)
            /\ (~BlankQuery /\ ~out.llm.raised /\ res.answer # MSG_NOT_FOUND) =>
                  /\ "confidence_score" \in DOMAIN res
                  /\ "similarity_scores" \in DOMAIN res
                  /\ res.similarity_scores # <<>>

\* an answer over a chunk at a negative distance, whose score the clamp
\* brought down to 1
C8_ClampedToOne ==
    /\ out.op = "agent.generate_answer"
    /\ "similarity_scores" \in DOMAIN out.ret.result
    /\ \E i \in DOMAIN out.ret.result.similarity_scores :
          RLt(out.ret.result.similarity_scores[i], R0)
    /\ out.ret.result.confidence_score = P09One

\* C9 as stated: every field of the confidence breakdown lies in [0, 1] for
\* every list of retrieved distances.
C9_BreakdownFieldsInUnitInterval ==
    (out.op = "backend.generate_answer"
        /\ "confidence_breakdown" \in DOMAIN out.ret.result) =>
        LET cb == out.ret.result.confidence_breakdown
        IN  /\ InUnit(cb.best_similarity)
            /\ InUnit(cb.avg_similarity)
            /\ InUnit(cb.consistency)
            /\ InUnit(cb.keyword_match)
            /\ P09InUnit(cb.final_score)

\* the expanded query: the raw query, a space, and its keywords joined by
\* spaces; the raw query when it has no keywords
C10_Expanded ==
    LET kws == _extract_keywords(query)
    IN  IF kws = <<>> THEN query ELSE query \o <<" ">> \o JoinSpace(kws)

\* min(3k, 20)
C10_CandidateCount ==
    IF 3 * RequestedK < 20 THEN 3 * RequestedK ELSE 20

\* C10: retrieve_with_scores first asks the index for min(3k, 20) candidates
\* with the expanded query; only when that returns nothing it asks again,
\* with the raw query and the same count; when this is empty too it returns
\* the empty list without raising.
C10_ExpandedFirstThenRaw ==
    (Retrieved /\ ~BlankQuery) =>
        LET calls == out.ret.calls
            asked(q) == [query |-> q, k |-> C10_CandidateCount]
        IN  /\ Len(calls) >= 1
            /\ calls[1] = asked(C10_Expanded)
            /\ (1 \notin vectorstore.failing /\ Held(C10_Expanded) # <<>>) =>
                  Len(calls) = 1
            /\ (1 \notin vectorstore.failing /\ Held(C10_Expanded) = <<>>) =>
                  /\ Len(calls) >= 2
                  /\ calls[2] = asked(query)
                  /\ (2 \notin vectorstore.failing /\ Held(query) = <<>>) =>
                        /\ Len(calls) = 2
                        /\ out.ret.result = <<>>
                        /\ ~out.ret.raised

\* the expanded query found nothing, the raw query was asked and found
\* nothing either
C10_RetriedWithRawQuery ==
    /\ Retrieved
    /\ NoCallRaised
    /\ Len(out.ret.calls) = 2
    /\ out.ret.calls[1].query # out.ret.calls[2].query
    /\ out.ret.result = <<>>

(***************************************************************************)
(* Properties of the API service.                                          *)
(***************************************************************************)
\* the latest request was a query that passed validation, in a deployment
\* whose metadata database does not make the handler raise
QueryHandledNormally ==
    /\ response.op = "query"
    /\ response.status # 422
    /\ env.mongo # "raises"

\* C5 as stated: a blank question or a retrieval that finds nothing is a
\* normal state: the query endpoint answers 200 with no sources and
\* confidence 0, never with an HTTP error (read here for a service whose
\* knowledge base exists, so that the generator could be built).
C5_BlankOrEmptyIndexIsNormal ==
    (QueryHandledNormally
        /\ query_side.generator
        /\ (IsBlank(response.question)
               \/ response.result.answer = MSG_NOT_FOUND)) =>
        /\ response.status = 200
        /\ response.result.sources = <<>>
        /\ response.result.confidence_score = P09Zero

\* C6 as stated: when the text-generation call fails, the query endpoint
\* returns the degraded result (the error message in the answer, no
\* sources) as a response instead of failing the request.
C6_GenerationFailureIsDegraded ==
    (QueryHandledNormally
        /\ response.llm.raised
        /\ response.result.answer = ErrorAnswer(response.llm.error)) =>
        /\ response.status = 200
        /\ response.result.sources = <<>>

\* C7 as stated: every query that retrieves after an upload request was
\* answered with success retrieves from an index that holds the uploaded
\* file's chunks.
C7_QueriesSeeCompletedUploads ==
    (response.op = "query" /\ response.calls # <<>>) =>
        \A f \in completed_uploads :
            \E i \in DOMAIN response.index : response.index[i] = f

(***************************************************************************)
(* Properties of the ranking.                                              *)
(***************************************************************************)
\* the pairs the index returned to the n-th call of the retrieval
Returned(n) == Take(Held(out.ret.calls[n].query), out.ret.calls[n].k)

\* how often the pair h occurs in the list s
Count(s, h) == Cardinality({i \in DOMAIN s : s[i] = h})

\* the position of the pair h in the list s
Pos(s, h) == CHOOSE i \in DOMAIN s : s[i] = h

\* C11: every pair of a result of retrieve_with_scores is a pair the index
\* returned to one call of this retrieval, the raw distance included, and
\* occurs in the result no more often than the index returned it.
C11_ResultIsReturnedPairs ==
    (Retrieved /\ out.ret.result # <<>>) =>
        \E n \in DOMAIN out.ret.calls :
            /\ n \notin vectorstore.failing
            /\ \A i \in DOMAIN out.ret.result :
                  /\ Count(Returned(n), out.ret.result[i]) >= 1
                  /\ Count(out.ret.result, out.ret.result[i])
                        <= Count(Returned(n), out.ret.result[i])

\* a re-ranked result, cut to k, none of whose distances equals the pair's
\* normalised similarity or its combined score
C11_RawDistanceKept ==
    /\ Retrieved
    /\ NoCallRaised
    /\ out.ret.result # <<>>
    /\ Len(out.ret.result) < Len(Returned(Len(out.ret.calls)))
    /\ \A i \in DOMAIN out.ret.result :
          /\ C2_Similarity(out.ret.result[i].dist) # out.ret.result[i].dist
          /\ C2_Combined(out.ret.result[i]) # out.ret.result[i].dist

\* C12: in a result ranked by combined score, two pairs of equal combined
\* score stand in the order in which the index returned them, and a
\* candidate cut away never precedes, in the index's order, a kept pair of
\* the same combined score.
C12_TiesKeepIndexOrder ==
    (Retrieved /\ NoCallRaised /\ out.ret.result # <<>>) =>
        LET r        == out.ret.result
            returned == Returned(Len(out.ret.calls))
        IN  /\ \A i, j \in DOMAIN r :
                  (i < j /\ C2_Combined(r[i]) = C2_Combined(r[j])) =>
                      Pos(returned, r[i]) < Pos(returned, r[j])
            /\ \A c \in DOMAIN returned, i \in DOMAIN r :
                  (Count(r, returned[c]) = 0
                      /\ C2_Combined(returned[c]) = C2_Combined(r[i])) =>
                      Pos(returned, r[i]) < c

\* the cut to k went through a tie: the first of two candidates of equal
\* combined score was kept and the second cut away
C12_TieCut ==
    /\ Retrieved
    /\ NoCallRaised
    /\ out.ret.result # <<>>
    /\ LET r        == out.ret.result
           returned == Returned(Len(out.ret.calls))
       IN  \E c \in DOMAIN returned :
              /\ Count(r, returned[c]) = 0
              /\ C2_Combined(returned[c]) = C2_Combined(r[Len(r)])

(***************************************************************************)
(* Properties of the keyword extraction.                                   *)
(***************************************************************************)
\* the numbers of S in increasing order
Ordered(S) ==
    [n \in 1..Cardinality(S) |->
        CHOOSE x \in S : Cardinality({y \in S : y < x}) = n - 1]

C13_Alnum == Range(LowerLetters) \cup Digits
C13_TokenChars == C13_Alnum \cup {"-", "'"}

\* where the maximal runs of token characters of q start
C13_RunStarts(q) ==
    {i \in DOMAIN q : q[i] \in C13_TokenChars
                        /\ (i = 1 \/ q[i - 1] \notin C13_TokenChars)}

\* where the run that starts at i ends
C13_RunEnd(q, i) ==
    CHOOSE j \in i..Len(q) :
        /\ \A p \in i..j : q[p] \in C13_TokenChars
        /\ j = Len(q) \/ q[j + 1] \notin C13_TokenChars

\* the tokens of q: its maximal runs of token characters, each from its
\* first to its last letter or digit, in the order of the text
C13_Tokens(q) ==
    LET starts == {i \in C13_RunStarts(q) :
                      \E p \in i..C13_RunEnd(q, i) : q[p] \in C13_Alnum}
        first(i) == CHOOSE p \in i..C13_RunEnd(q, i) :
                       /\ q[p] \in C13_Alnum
                       /\ \A r \in i..(p - 1) : q[r] \notin C13_Alnum
        last(i)  == CHOOSE p \in i..C13_RunEnd(q, i) :
                       /\ q[p] \in C13_Alnum
                       /\ \A r \in (p + 1)..C13_RunEnd(q, i) :
                             q[r] \notin C13_Alnum
        order == Ordered(starts)
    IN  [n \in DOMAIN order |-> SubSeq(q, first(order[n]), last(order[n]))]

\* the tokens that are kept: no stop-word, longer than 2, first occurrence
C13_Kept(t) ==
    {n \in DOMAIN t : /\ t[n] \notin stop_words
                      /\ Len(t[n]) > 2
                      /\ \A m \in 1..(n - 1) : t[m] # t[n]}

C13_Expected(q) ==
    LET t    == C13_Tokens(Lower(q))
        kept == Ordered(C13_Kept(t))
    IN  [n \in DOMAIN kept |-> t[kept[n]]]

ConfidenceOps == {"backend.confidence", "agent.confidence"}

\* the confidence block has run on the question and the retrieved pairs
ScoredOnce == out.op \in ConfidenceOps

\* the final score the block computed
FinalScore ==
    IF out.op = "backend.confidence" THEN out.ret.final_score
    ELSE out.ret.score

\* the contents and the raw distances of the retrieved pairs
Chunks ==
    [i \in DOMAIN retrieved_docs_with_scores |->
        retrieved_docs_with_scores[i].doc.page_content]
Distances ==
    [i \in DOMAIN retrieved_docs_with_scores |->
        retrieved_docs_with_scores[i].dist]

\* the retrieved distances are 0.2, 0.3 and 0.4
ScenarioA ==
    /\ Len(Distances) = 3
    /\ Range(Distances) = {<<1, 5>>, <<3, 10>>, <<2, 5>>}

\* p = x ** 0.9 exceeds r, for 0 <= r < x <= 1 (there x ** 0.9 >= x)
C14_Exceeds(p, r) == RLt(r, p.pow09of) /\ RLe(p.pow09of, R1)

\* the query has keywords, and each is a word of every retrieved chunk
C14_KeywordsInEveryChunk ==
    /\ _extract_keywords(query) # <<>>
    /\ \A i \in DOMAIN Chunks :
          Range(_extract_keywords(query)) \subseteq WordSet(Lower(Chunks[i]))

\* the query has words, and each is a word of every retrieved chunk
C14_WordsInEveryChunk ==
    /\ WordSet(Lower(query)) # {}
    /\ \A i \in DOMAIN Chunks :
          WordSet(Lower(query)) \subseteq WordSet(Lower(Chunks[i]))

\* C14 as stated: for the distances 0.2, 0.3, 0.4 and a query whose
\* keywords are all present in every retrieved chunk, best_similarity is
\* 0.9, keyword_boost is 1.0 and the final score exceeds 0.85.
C14_ScenarioAByKeywords ==
    (ScoredOnce /\ ScenarioA /\ C14_KeywordsInEveryChunk) =>
        /\ C14_Exceeds(FinalScore, <<17, 20>>)
        /\ out.op = "backend.confidence" =>
              /\ out.ret.best_similarity = <<9, 10>>
              /\ out.ret.keyword_match = R1

\* C14 amended: for the distances 0.2, 0.3, 0.4 and a query all of whose
\* words (stop-words and short words included) are words of every retrieved
\* chunk, best_similarity is 0.9, keyword_boost is 1.0 and the final score
\* exceeds 0.85.
C14_ScenarioAByWords ==
    (ScoredOnce /\ ScenarioA /\ C14_WordsInEveryChunk) =>
        /\ C14_Exceeds(FinalScore, <<17, 20>>)
        /\ out.op = "backend.confidence" =>
              /\ out.ret.best_similarity = <<9, 10>>
              /\ out.ret.keyword_match = R1

\* scenario A was scored by the block that reports the breakdown
C14_ScenarioAScored ==
    /\ out.op = "backend.confidence"
    /\ ScenarioA
    /\ C14_WordsInEveryChunk
    /\ Distances = << <<1, 5>>, <<3, 10>>, <<2, 5>> >>

\* the block that reports the breakdown has run
Breakdown == out.op = "backend.confidence"

\* the mean of a list of numbers
C15_Mean(s) == RDiv(RSum(s), <<Len(s), 1>>)

\* the population variance: the mean of the squares less the square of the
\* mean
C15_PopulationVariance(s) ==
    RSub(C15_Mean([i \in DOMAIN s |-> RMul(s[i], s[i])]),
         RMul(C15_Mean(s), C15_Mean(s)))

\* C15: consistency is exactly 1 for a single retrieved chunk, and
\* 1 / (1 + population variance of the distances) for more than one.
C15_ConsistencyFromVariance ==
    Breakdown =>
        out.ret.consistency =
            IF Len(Distances) = 1 THEN R1
            ELSE RDiv(R1, RAdd(R1, C15_PopulationVariance(Distances)))

\* several chunks at different distances, with a consistency below 1
C15_SpreadDistances ==
    /\ Breakdown
    /\ Len(Distances) > 1
    /\ Cardinality(Range(Distances)) > 1
    /\ RLt(out.ret.consistency, R1)

\* max(0, 1 - d / 2)
C16_Floor(d) ==
    IF RLt(RSub(R1, RDiv(d, <<2, 1>>)), R0) THEN R0
    ELSE RSub(R1, RDiv(d, <<2, 1>>))

\* C16: best_similarity is max(0, 1 - min(distances) / 2) and
\* avg_similarity is max(0, 1 - mean(distances) / 2); a single chunk at
\* distance 2.0 or more has best_similarity 0.
C16_SimilaritiesFromDistances ==
    Breakdown =>
        /\ \E m \in Range(Distances) :
              /\ \A x \in Range(Distances) : RLe(m, x)
              /\ out.ret.best_similarity = C16_Floor(m)
        /\ out.ret.avg_similarity = C16_Floor(C15_Mean(Distances))
        /\ (Len(Distances) = 1 /\ RLe(<<2, 1>>, Distances[1])) =>
              out.ret.best_similarity = R0

\* scenario D: a single chunk at distance 2.0 was scored
C16_SingleChunkAtMaximum ==
    /\ Breakdown
    /\ Distances = << <<2, 1>> >>
    /\ out.ret.best_similarity = R0

\* the distinct words of the lower-cased query
C17_QueryWords == WordSet(Lower(query))

\* the (chunk, query word) pairs such that the word is in the chunk's word
\* set
C17_Matches ==
    {<<i, w>> \in (DOMAIN Chunks) \X C17_QueryWords :
        w \in WordSet(Lower(Chunks[i]))}

\* C17: keyword_boost is min(1, S / n), n the number of retrieved chunks and
\* S the sum over the chunks of the fraction of the query's distinct words
\* that are in the chunk's word set; it is 0 for a query without a word and
\* never above 1.
C17_KeywordBoostIsMeanFraction ==
    Breakdown =>
        /\ out.ret.keyword_match =
              IF C17_QueryWords = {} THEN R0
              ELSE PyMin(R1, Rat(Cardinality(C17_Matches),
                                 Cardinality(C17_QueryWords) * Len(Chunks)))
        /\ RLe(out.ret.keyword_match, R1)
        /\ RLe(R0, out.ret.keyword_match)

\* chunks that share different fractions of the query's words, one of them
\* none
C17_MixedChunks ==
    /\ Breakdown
    /\ \E i, j \in DOMAIN Chunks :
          /\ C17_QueryWords \cap WordSet(Lower(Chunks[i])) = {}
          /\ C17_QueryWords \subseteq WordSet(Lower(Chunks[j]))
    /\ RLt(R0, out.ret.keyword_match)
    /\ RLt(out.ret.keyword_match, R1)

\* best distances swept: below zero, zero, and up to beyond the maximum
SweptDistances ==
    {<<-1, 2>>, <<0, 1>>, <<1, 5>>, <<1, 1>>, <<2, 1>>, <<3, 1>>}

\* the final score for the best distance d, the other factors as computed
C18_Final(d) ==
    ConfidenceFields(DistanceSimilarity(d), out.ret.avg_similarity,
                     out.ret.consistency, out.ret.keyword_match).final_score

\* C18: with avg_similarity, consistency and keyword_boost as computed, the
\* final score does not decrease when best_similarity grows (the best
\* distance shrinks), across the power step and the clamp.
C18_MonotoneInBestSimilarity ==
    Breakdown =>
        /\ \A d1, d2 \in SweptDistances :
              RLe(DistanceSimilarity(d1), DistanceSimilarity(d2)) =>
                  P09Le(C18_Final(d1), C18_Final(d2))
        /\ \A d \in SweptDistances :
              /\ RLe(DistanceSimilarity(d), out.ret.best_similarity) =>
                    P09Le(C18_Final(d), out.ret.final_score)
              /\ RLe(out.ret.best_similarity, DistanceSimilarity(d)) =>
                    P09Le(out.ret.final_score, C18_Final(d))

\* a computed score below 1 that a smaller best distance lifts to the clamp
C18_SweepReachesClamp ==
    /\ Breakdown
    /\ P09Lt(out.ret.final_score, P09One)
    /\ \E d \in SweptDistances :
          /\ RLt(out.ret.best_similarity, DistanceSimilarity(d))
          /\ C18_Final(d) = P09One
    /\ \E d \in SweptDistances : P09Lt(C18_Final(d), out.ret.final_score)

\* generate_answer ran on a question that is not blank, and the retriever
\* handed it no pair
RetrievedNothing ==
    /\ out.op \in GenerateOps
    /\ ~BlankQuery
    /\ (IF out.op = "backend.generate_answer"
        THEN backend_retrieve_with_scores(vectorstore, query, k)
        ELSE retrieve_with_scores(vectorstore, query, k)).result = <<>>

\* C20 as stated: for an empty list of retrieved distances the confidence
\* computation does not raise and yields a final score of 0 with a
\* confidence breakdown whose fields are all 0.
C20_EmptyListZeroBreakdown ==
    (RetrievedNothing /\ out.op = "backend.generate_answer") =>
        /\ out.ret.result.answer = MSG_NOT_FOUND
        /\ out.ret.result.confidence_score = P09Zero
        /\ "confidence_breakdown" \in DOMAIN out.ret.result
        /\ \A f \in {"best_similarity", "avg_similarity", "consistency",
                     "keyword_match"} :
              out.ret.result.confidence_breakdown[f] = R0
        /\ out.ret.result.confidence_breakdown.final_score = P09Zero

\* C20 amended: for an empty list of retrieved pairs generate_answer does
\* not raise and returns the not-found answer with confidence score 0, no
\* sources and no confidence breakdown at all.
C20_EmptyListZeroScoreNoBreakdown ==
    RetrievedNothing =>
        /\ out.ret.result.answer = MSG_NOT_FOUND
        /\ out.ret.result.confidence_score = P09Zero
        /\ out.ret.result.sources = <<>>
        /\ "confidence_breakdown" \notin DOMAIN out.ret.result

\* both index calls succeeded and found nothing for a question with words
C20_NothingFound ==
    /\ out.op = "backend.generate_answer"
    /\ ~BlankQuery
    /\ NoCallRaised
    /\ Len(out.ret.calls) = 2
    /\ out.ret.result.answer = MSG_NOT_FOUND
    /\ ~out.llm.raised

(***************************************************************************)
(* Properties of the reply parsing.                                        *)
(***************************************************************************)
\* the positions at which pat occurs in s
C21_Occurrences(s, pat) ==
    {i \in 1..(Len(s) - Len(pat) + 1) : SubSeq(s, i, i + Len(pat) - 1) = pat}

C21_First(s, pat) ==
    CHOOSE i \in C21_Occurrences(s, pat) :
        \A j \in C21_Occurrences(s, pat) : i <= j

\* t is s without its leading and trailing white space
C21_IsTrimOf(t, s) ==
    \E i \in 1..(Len(s) + 1), j \in 0..Len(s) :
        /\ t = SubSeq(s, i, j)
        /\ \A n \in 1..(i - 1) : s[n] \in Whitespace
        /\ \A n \in (j + 1)..Len(s) : s[n] \in Whitespace
        /\ t # <<>> => t[1] \notin Whitespace /\ t[Len(t)] \notin Whitespace

\* what follows the first ANSWER: marker
C21_AfterAnswer(s) ==
    SubSeq(s, C21_First(s, ANSWER_MARK) + Len(ANSWER_MARK), Len(s))

\* the text between the ANSWER: marker and the SOURCES: marker, or after
\* ANSWER: to the end when no SOURCES: marker follows
C21_Between(s) ==
    LET rest == C21_AfterAnswer(s)
    IN  IF C21_Occurrences(rest, SOURCES_MARK) = {} THEN rest
        ELSE SubSeq(rest, 1, C21_First(rest, SOURCES_MARK) - 1)

\* C21: _extract_answer returns the trimmed text between the ANSWER: marker
\* and the SOURCES: marker (to the end of the reply when SOURCES: is absent),
\* and the whole reply, trimmed, when the reply holds neither marker
C21_AnswerBetweenMarkers ==
    out.op = "_extract_answer" =>
        /\ C21_Occurrences(response_text, ANSWER_MARK) # {} =>
              C21_IsTrimOf(out.ret, C21_Between(response_text))
        /\ /\ C21_Occurrences(response_text, ANSWER_MARK) = {}
           /\ C21_Occurrences(response_text, SOURCES_MARK) = {}
           => C21_IsTrimOf(out.ret, response_text)

(***************************************************************************)
(* Properties of query requests against an unchanged index.                *)
(***************************************************************************)
\* the requests that have been answered
Answered == {r \in InFlight : inflight[r].pc = "done"}

\* what a request yields in a process that handles no other request: the
\* status, and the result of generate_answer over the store on disk
RunAlone(req) ==
    IF ~disk.present THEN [status |-> 404, result |-> NoResult]
    ELSE LET generated ==
                 backend_generate_answer(
                     ApiVectorStore(disk.files, req.question, req.failing),
                     req.question, req.top_k, req.llm)
         IN  [status |-> IF env.mongo = "raises" THEN 500
                         ELSE IF "timestamp" \in DOMAIN generated.result
                         THEN 200 ELSE 500,
              result |-> generated.result]

\* what request r was answered with
Yielded(r) ==
    [status |-> inflight[r].status, result |-> inflight[r].generated.result]

\* the request met a failing index call or a failing generation call
MetFailure(r) ==
    inflight[r].request.failing # {} \/ inflight[r].request.llm.raised

\* C22: a query answered after earlier queries, failed ones included, yields
\* what it yields when no query ran before it, and the retriever of the
\* process still holds the store that is on disk
C22_LaterQueryAsIfFirst ==
    \A r \in Answered :
        inflight[r].earlier # {} =>
            /\ Yielded(r) = RunAlone(inflight[r].request)
            /\ query_side.generator => query_side.files = disk.files

\* a query answered from the index after an earlier query met a failure
C22_AnsweredAfterFailure ==
    \E r \in Answered :
        /\ inflight[r].status = 200
        /\ inflight[r].generated.result.sources # <<>>
        /\ \E s \in inflight[r].earlier :
              /\ MetFailure(s)
              /\ inflight[s].request.failing # {}
              /\ inflight[s].request.llm.raised

\* C24: under every interleaving of the two requests, each yields what it
\* yields when it runs alone against the same index
C24_EachAsIfAlone ==
    \A r \in Answered : Yielded(r) = RunAlone(inflight[r].request)

\* both requests were in flight together and both built the generator
C24_BothConstructed ==
    /\ Answered = InFlight
    /\ \A r \in InFlight :
          /\ inflight[r].earlier = {}
          /\ inflight[r].constructed
          /\ inflight[r].status = 200
          /\ inflight[r].generated.result.sources # <<>>
    /\ inflight["q1"].request # inflight["q2"].request

(***************************************************************************)
(* Properties of the retrieval layer's effects.                            *)
(***************************************************************************)
\* C23: no operation of the retrieval layer (retrieve_with_scores,
\* format_context, get_source_metadata, and generate_answer which calls
\* them) changes the index or a chunk in it, whether or not an index call
\* or the generation call raised
C23_RetrievalOnlyReads ==
    [][vectorstore' = vectorstore]_vars

\* a retrieval went through a failed index call and returned chunks
C23_ReadAfterFailedCall ==
    /\ out.op = "agent.retrieve_with_scores"
    /\ \E i \in DOMAIN out.ret.calls : i \in vectorstore.failing
    /\ out.ret.result # <<>>

(***************************************************************************)
(* The two implementations side by side.                                   *)
(***************************************************************************)
\* the result of the other generator on the inputs of this state
C25_BackendResult ==
    backend_generate_answer(vectorstore, query, k, out.llm).result

C25_AgentResult == generate_answer(vectorstore, query, k, out.llm).result

\* C25: on the same index, query and k the two retrievers return the same
\* ranked list of (chunk, raw distance) pairs on every path, and whenever a
\* generator computes a confidence score the other one computes the same
C25_SameCore ==
    /\ out.op = "agent.retrieve_with_scores" =>
          out.ret.result =
              backend_retrieve_with_scores(vectorstore, query, k).result
    /\ out.op = "backend.retrieve_with_scores" =>
          out.ret.result = retrieve_with_scores(vectorstore, query, k).result
    /\ /\ out.op = "agent.generate_answer"
       /\ "confidence_score" \in DOMAIN out.ret.result
       => C25_BackendResult.confidence_score = out.ret.result.confidence_score
    /\ /\ out.op = "backend.generate_answer"
       /\ "confidence_breakdown" \in DOMAIN out.ret.result
       => /\ "confidence_score" \in DOMAIN C25_AgentResult
          /\ C25_AgentResult.confidence_score
                = out.ret.result.confidence_breakdown.final_score

\* the service's retriever re-ranked the candidates of the default k into
\* another order than the index gave them
C25_DefaultKReranked ==
    /\ out.op = "backend.retrieve_with_scores"
    /\ k = DefaultK
    /\ out.ret.path = "enhanced"
    /\ Len(out.ret.result) >= 2
    /\ out.ret.result # Take(vectorstore.cands[_expand_query(query)],
                             Len(out.ret.result))

(***************************************************************************)
(* Properties of the file deletion of the API service.                     *)
(***************************************************************************)
\* a delete request is answered in this step
DeleteStep == n_deletes' = n_deletes + 1

\* the file the request names has a metadata record
C26_Existing == \E rec \in files : rec.file_id = response'.file_id.of

\* C26: delete_file on an existing file removes its stored object and its
\* metadata record and reports deleted = true, and leaves the vector store
\* as it is; for an unknown file id it answers 404 and changes nothing
C26_DeleteRemovesFileKeepsStore ==
    [][DeleteStep =>
         /\ disk' = disk
         /\ query_side' = query_side
         /\ upload_embedder' = upload_embedder
         /\ IF C26_Existing
            THEN /\ response'.status = 200
                 /\ response'.deleted
                 /\ \A rec \in files' : rec.file_id # response'.file_id.of
                 /\ \A o \in objects' : o.file # response'.file_id.of
            ELSE /\ response'.status = 404
                 /\ files' = files
                 /\ objects' = objects]_vars

\* how many chunks of file f a sequence of chunks holds
Times(chunks, f) == Len(SelectSeq(chunks, LAMBDA c : c = f))

\* the chunks a query of the session can retrieve
Retrievable == IF session_state.retriever.loaded THEN session_state.retriever.chunks ELSE <<>>

\* C27: whenever delete_file_from_kb(f) has returned True, the chunks
\* retrievable through the session's retriever are exactly those of the
\* files still in the data directory, and when no file remains the index is
\* cleared, the session has no retriever and no generator and
\* vectorstore_loaded is False.
C27_DeleteRebuildsWithoutFile ==
    (agent_out.op = "delete_file_from_kb" /\ agent_out.ret) =>
        /\ \A f \in AgentFiles :
              Times(Retrievable, f) = Times(ChunksOf(data_dir), f)
        /\ data_dir = {} =>
              /\ ~vectorstore_dir.present
              /\ ~session_state.retriever.loaded
              /\ ~session_state.generator.loaded
              /\ ~session_state.vectorstore_loaded

UploadStep == agent_out'.op = "upload" /\ n_agent_ops' = n_agent_ops + 1

\* C30: after any sequence of upload batches every saved file is indexed at
\* most once (no file has two copies of its chunks in the vector store), and
\* a batch whose file names all exist in the data directory already is not
\* processed and leaves the vector store alone.
C30_IndexedAtMostOnce ==
    [][/\ \A f \in AgentFiles : Times(vectorstore_dir'.chunks, f) <= 1
       /\ (UploadStep /\ agent_out'.batch \subseteq data_dir) =>
              /\ ~agent_out'.processed
              /\ vectorstore_dir' = vectorstore_dir]_vars

\* C28: in every reachable state a metadata record with processed = true
\* belongs to a file whose chunks are in the saved vector store, and an
\* upload request that failed leaves the record of its file, when it has
\* one, at processed = false.
C28_ProcessedOnlyAfterSave ==
    /\ \A rec \in files :
          rec.processed =>
             (disk.present /\ rec.file_id \in Range(disk.files))
    /\ (response.op = "upload" /\ response.status # 200) =>
          \A rec \in files : rec.file_id = response.file => ~rec.processed

\* an upload whose indexing failed after an upload that succeeded
C28_ProcessedAndFailed ==
    /\ response.op = "upload"
    /\ response.status = 500
    /\ \E rec \in files : rec.file_id = response.file /\ ~rec.processed
    /\ \E rec \in files : rec.processed /\ rec.file_id \in Range(disk.files)

UploadRequest == response'.op = "upload" /\ n_uploads' = n_uploads + 1

\* C29: an upload answered with status 400 leaves the object store and the
\* upload directory, the metadata collection and the vector store unchanged,
\* and no temporary file remains after any upload request has ended.
C29_RejectedStoresNothing ==
    [][UploadRequest =>
         /\ tmp_files' = {}
         /\ response'.status = 400 =>
               UNCHANGED <<objects, files, disk, upload_embedder>>]_vars

====
